---- MODULE Spec2Model ----
(***************************************************************************)
(* Voice triage core of mattprotocol/voicemail-assistant: the Vapi webhook *)
(* handler (tool-call dispatcher), the sessions table it advances and the  *)
(* undo_actions table it uses as an undo ledger.                           *)
(*                                                                         *)
(* A webhook request is a process: it loads the session row once, then     *)
(* runs its tool calls one after the other; every await on the database or *)
(* on Gmail is a step boundary.  Indices are 0-based as in the code; a     *)
(* queue is a TLA+ sequence, so queue[i] of the code is q[i + 1].          *)
(***************************************************************************)
EXTENDS Integers, Sequences, FiniteSets, TLC

\* ------------------------------------------------------------------ bounds
MaxQueue == 2       \* longest queue_snapshot of a session
MaxCommands == 3    \* tool calls delivered in one run, over all requests
MaxBatch == 2       \* tool calls carried by one webhook request
MaxUndoCommands == 4 \* tool calls delivered by a caller that only acts and undoes
MaxTime == 15       \* last instant of the clock, in seconds
TickLen == 10       \* seconds of a short wait
MaxLifeCommands == 3 \* requests delivered when pause and resume are included
MaxValidCommands == 3 \* tool calls and rejected requests of a careless caller
MaxObs == 2           \* observations in one reconciler request
MaxStartCommands == 2 \* tool calls sent to a session that was just started
MaxActionCommands == 3 \* requests sent to the standalone action routes
MaxMixCommands == 4  \* requests sent to two sessions and the action routes
MaxEndCommands == 3  \* tool calls of a caller that may end the session early
MaxCanon == 2         \* canonical threads in one reconciler request
MaxCacheTime == 63    \* how long the scraping service is watched, in units of 30 s

\* ------------------------------------------------------- program constants
UNDO_WINDOW_S == 15
SESSION_TTL == 60      \* 30 * 60 * 1000 ms, in units of 30 s
SWEEP_EVERY == 2       \* 60 * 1000 ms, in units of 30 s

SessionIds == {"s1", "s2"}
Procs == {1, 2}
NoThread == "none"
NoRow == [id |-> 0]
NoCall == "none"      \* sessions.vapi_call_id is null

ActNames == {"archive_email", "delete_email", "star_email"}
ToolNames == ActNames \cup {"skip_email", "undo_action", "get_remaining_count",
                            "end_session", "get_current_email"}

VARIABLES
    sessions,       \* sessions table: id -> [status, current_index,
                    \* vapi_call_id]
    queue,          \* sessions.queue_snapshot: id -> sequence of thread ids
    undo_actions,   \* undo_actions table: a set of rows
    nextRow,        \* next undo_actions row id / created_at stamp
    gmail_calls,    \* calls made to the Gmail mutators, in order
    now,            \* wall clock, seconds
    caller,         \* the caller: the tool names it uses, how many tool calls
                    \* it delivers in all (fixed through a run)
    issued,         \* tool calls delivered so far
    pc,             \* per request: where the handler is
    req,            \* per request: sessionData, the tool call being processed
                    \* (name) and how many follow it in toolCallList
    undoAction,     \* per request: the row handleUndo selected
    result,         \* per handler: what its last processToolCall returned
    mailbox,        \* Gmail: thread id -> its INBOX, TRASH and STARRED labels
    recon,          \* the reconciler: its request, its loop state, its output;
                    \* around it the session start route: the path it took
                    \* and the queue_snapshot it built
    cache           \* the scraping service: its saved sessions by account,
                    \* its clock, when its sweep is due, its last response

vars == <<sessions, queue, undo_actions, nextRow, gmail_calls, now, caller,
          issued, pc, req, undoAction, result, mailbox, recon, cache>>

\* ---------------------------------------------------------------- helpers
\* mutant of QueueAt: the index wraps around instead of running off the array
QueueAt_Wrap(q, i) == IF Len(q) > 0 THEN q[(i % Len(q)) + 1] ELSE NoThread

\* queue[currentIndex]: undefined outside the array
QueueAt(q, i) == IF i >= 0 /\ i < Len(q) THEN q[i + 1] ELSE NoThread

\* the inbox the sessions of the account are created from, in queue order;
\* thread ids are pairwise distinct
Inbox == <<"t2", "t1", "t3">>

\* queues a session can be created with: the first n threads of the inbox
QueueChoices == {SubSeq(Inbox, 1, n) : n \in 0..MaxQueue}

\* data.email of get_current_email: null, the cached QueueItem or the
\* EmailThread getThread returned (other fields, a body among them)
NoEmail == [shape |-> "null", threadId |-> NoThread]

NoResult == [name |-> "none", success |-> FALSE, msg |-> "none",
             threadId |-> NoThread, next |-> NoThread,
             remaining |-> 0, total |-> 0, current |-> 0, processed |-> 0,
             email |-> NoEmail]

IdleReq == [sessionId |-> "none", current_index |-> 0, status |-> "none",
            name |-> "none", remaining |-> 0]

\* ------------------------------------------------------- pure functions
\* the action_type storeUndoAction is called with by each act handler
ActionType(name) ==
    CASE name = "archive_email" -> "archive"
      [] name = "delete_email" -> "delete"
      [] name = "star_email" -> "star"

\* mutant of ReverseType: the kind itself is recorded as its reverse
ReverseType_Same(name) ==
    CASE name = "archive_email" -> "archive"
      [] name = "delete_email" -> "delete"
      [] name = "star_email" -> "star"

\* the reverse_action each act handler records
ReverseType(name) ==
    CASE name = "archive_email" -> "unarchive"
      [] name = "delete_email" -> "undelete"
      [] name = "star_email" -> "unstar"

\* storeUndoAction: expiresAt = Date.now() + 15 * 1000
ExpiresAt(t) == t + UNDO_WINDOW_S

\* moveToNextEmail: nextIndex = session.current_index + 1
NextIndex(currentIndex) == currentIndex + 1

\* moveToNextEmail: if (nextIndex >= queue.length)
IsEndOfQueue(nextIndex, q) == nextIndex >= Len(q)

\* mutant of LiveRows: .gte instead of .gt
LiveRows_Inclusive(rows, sid, t) ==
    {r \in rows : r.session_id = sid /\ r.expires_at >= t}

\* handleUndo's query: .eq('session_id', id).gt('expires_at', now)
LiveRows(rows, sid, t) ==
    {r \in rows : r.session_id = sid /\ r.expires_at > t}

\* mutant of MostRecent: ascending order, the oldest row is taken
MostRecent_Oldest(rows) ==
    IF rows = {} THEN NoRow
    ELSE CHOOSE r \in rows : \A o \in rows : o.created_at >= r.created_at

\* .order('created_at', {ascending: false}).limit(1).single(); no row: null
MostRecent(rows) ==
    IF rows = {} THEN NoRow
    ELSE CHOOSE r \in rows : \A o \in rows : o.created_at <= r.created_at

\* queue.findIndex(e => e.threadId === id): first match, -1 when absent
FindIndex(q, id) ==
    IF \E i \in 1..Len(q) : q[i] = id
    THEN (CHOOSE i \in 1..Len(q) :
             q[i] = id /\ \A j \in 1..(i - 1) : q[j] # id) - 1
    ELSE -1

\* the threads of the mailbox
ThreadIds == {"t1", "t2", "t3"}

\* a thread in the inbox, neither trashed nor starred
FreshLabels == [inbox |-> TRUE, trash |-> FALSE, starred |-> FALSE]

\* what a Gmail mutator does to the labels of a thread: archiveThread removes
\* INBOX, unarchiveThread adds it, deleteThread trashes, undeleteThread
\* untrashes, starThread adds STARRED, unstarThread removes it
ApplyOp(op, l) ==
    CASE op = "archive" -> [l EXCEPT !.inbox = FALSE]
      [] op = "unarchive" -> [l EXCEPT !.inbox = TRUE]
      [] op = "delete" -> [l EXCEPT !.trash = TRUE]
      [] op = "undelete" -> [l EXCEPT !.trash = FALSE]
      [] op = "star" -> [l EXCEPT !.starred = TRUE]
      [] op = "unstar" -> [l EXCEPT !.starred = FALSE]
      [] OTHER -> l

\* the mailbox after a Gmail call with this outcome
Mutated(outcome, op, id) ==
    IF outcome = "ok" /\ id \in ThreadIds
    THEN [mailbox EXCEPT ![id] = ApplyOp(op, @)]
    ELSE mailbox

\* the reconciler at rest
NoRecon == [step |-> "idle", superhumanThreads |-> <<>>, gmailThreads |-> <<>>,
            results |-> <<>>, used |-> {}, orderedIds |-> <<>>,
            path |-> "none", queueSnapshot |-> <<>>]

\* outcomes of "getGmailClient, then the Gmail call": no client (null), the
\* call throws, the call returns
GmailOutcomes == {"no_client", "throws", "ok"}

\* mutant of ProceedsAfter: the outcome of the Gmail call is not waited for
\* (a missing await, a swallowed error): the handler always goes on
ProceedsAfter_Always(outcome) == TRUE

\* a handler goes on past its Gmail call only when the client exists and the
\* awaited call did not throw (if (!gmail) return ...; await xThread(...))
ProceedsAfter(outcome) == outcome = "ok"

\* a saved session that is not in the map
NoSaved == [accountEmail |-> "none", lastActivity |-> 0, isActive |-> FALSE]

Accounts == {"a@x.com"}

NoAnswer == [op |-> "none", accountEmail |-> "none", found |-> FALSE,
             isActive |-> FALSE]

\* the scraping service after start-up: const sessions = new Map(), the sweep
\* timer armed
NoCache == [sessions |-> [a \in Accounts |-> NoSaved], clock |-> 0,
            nextSweep |-> SWEEP_EVERY, answer |-> NoAnswer]

\* ------------------------------------------------------------------ Init
StoreInit(tools, budget) ==
    /\ caller = [tools |-> tools, budget |-> budget]
    /\ \E q \in QueueChoices : queue = [s \in SessionIds |-> q]
    /\ sessions = [s \in SessionIds |->
                     [status |-> "active", current_index |-> 0,
                      vapi_call_id |-> NoCall]]
    /\ undo_actions = {}
    /\ nextRow = 1
    /\ gmail_calls = <<>>
    /\ now = 0
    /\ issued = 0
    /\ pc = [w \in Procs |-> "idle"]
    /\ req = [w \in Procs |-> IdleReq]
    /\ undoAction = [w \in Procs |-> NoRow]
    /\ result = [w \in Procs |-> NoResult]
    /\ cache = NoCache

\* sessions exist, every thread is in the inbox, the reconciler is at rest
InitWith(tools, budget) ==
    /\ StoreInit(tools, budget)
    /\ mailbox = [t \in ThreadIds |-> FreshLabels]
    /\ recon = NoRecon

Init == InitWith(ToolNames, MaxCommands)

\* --------------------------------------------------------------- actions
\* processToolCall returned r: handleToolCalls keeps its message as the
\* spoken message and goes to the next tool call, or responds after the last
Return(w, r) ==
    /\ result' = [result EXCEPT ![w] = r]
    /\ undoAction' = [undoAction EXCEPT ![w] = NoRow]
    /\ IF req[w].remaining = 0
       THEN /\ pc' = [pc EXCEPT ![w] = "idle"]
            /\ req' = [req EXCEPT ![w] = IdleReq]
       ELSE /\ pc' = [pc EXCEPT ![w] = "dispatch"]
            /\ \E name \in caller.tools :
                 req' = [req EXCEPT ![w].name = name,
                                    ![w].remaining = @ - 1]

Res(name, ok, msg, tid, nxt) ==
    [NoResult EXCEPT !.name = name, !.success = ok, !.msg = msg,
                     !.threadId = tid, !.next = nxt]

\* handleToolCalls up to the loop: the request arrives with n tool calls, the
\* session row is selected once and kept as sessionData / queue /
\* currentIndex.  The names of the tool calls are drawn as the loop reaches
\* them.
Receive(w, s, n, first) ==
    /\ pc[w] = "idle"
    /\ first \in caller.tools
    /\ issued + n <= caller.budget
    /\ issued' = issued + n
    /\ req' = [req EXCEPT ![w] =
                 [sessionId |-> s,
                  current_index |-> sessions[s].current_index,
                  status |-> sessions[s].status,
                  name |-> first,
                  remaining |-> n - 1]]
    /\ pc' = [pc EXCEPT ![w] = "dispatch"]
    /\ UNCHANGED <<recon, mailbox, cache, caller, sessions, queue, undo_actions, nextRow, gmail_calls, now,
                   undoAction, result>>

\* moveToNextEmail's update of the sessions row, from the loaded sessionData
MovedSession(row, currentIndex, q) ==
    IF IsEndOfQueue(NextIndex(currentIndex), q)
    THEN [row EXCEPT !.current_index = NextIndex(currentIndex),
                     !.status = "completed"]
    ELSE [row EXCEPT !.current_index = NextIndex(currentIndex)]

\* what moveToNextEmail returns as nextEmail
MovedNext(currentIndex, q) ==
    IF IsEndOfQueue(NextIndex(currentIndex), q) THEN NoThread
    ELSE QueueAt(q, NextIndex(currentIndex))

\* handleArchive / handleDelete / handleStar up to the Gmail call
ActBegin(w) ==
    /\ pc[w] = "dispatch"
    /\ req[w].name \in ActNames
    /\ LET name == req[w].name
           s == req[w].sessionId
           currentEmail == QueueAt(queue[s], req[w].current_index)
       IN IF currentEmail = NoThread
          THEN /\ Return(w, Res(name, FALSE, "end_of_inbox", NoThread, NoThread))
               /\ UNCHANGED <<gmail_calls, mailbox>>
          ELSE \E outcome \in GmailOutcomes :
                 /\ mailbox' = Mutated(outcome, ActionType(name), currentEmail)
                 /\ gmail_calls' =
                      IF outcome = "no_client" THEN gmail_calls
                      ELSE Append(gmail_calls,
                                  [op |-> ActionType(name), id |-> currentEmail,
                                   ok |-> outcome = "ok"])
                 /\ IF ProceedsAfter(outcome)
                    THEN /\ pc' = [pc EXCEPT ![w] = "act_store"]
                         /\ UNCHANGED <<req, result, undoAction>>
                    ELSE Return(w, Res(name, FALSE,
                                       IF outcome = "no_client" THEN "no_connect"
                                       ELSE "action_failed",
                                       NoThread, NoThread))
    /\ UNCHANGED <<recon, cache, caller, sessions, queue, undo_actions, nextRow, now, issued>>

\* storeUndoAction: the insert into undo_actions
ActStore(w) ==
    /\ pc[w] = "act_store"
    /\ LET name == req[w].name
           s == req[w].sessionId
           currentEmail == QueueAt(queue[s], req[w].current_index)
       IN undo_actions' = undo_actions \cup
             {[id |-> nextRow, session_id |-> s,
               action_type |-> ActionType(name),
               gmail_thread_id |-> currentEmail,
               reverse_action |-> ReverseType(name),
               created_at |-> nextRow,
               expires_at |-> ExpiresAt(now)]}
    /\ nextRow' = nextRow + 1
    /\ pc' = [pc EXCEPT ![w] = "act_move"]
    /\ UNCHANGED <<recon, mailbox, cache, caller, sessions, queue, gmail_calls, now, issued, req, undoAction,
                   result>>

\* moveToNextEmail called by an act handler, and the handler's return
ActMove(w) ==
    /\ pc[w] = "act_move"
    /\ LET name == req[w].name
           s == req[w].sessionId
           idx == req[w].current_index
       IN /\ sessions' = [sessions EXCEPT ![s] = MovedSession(@, idx, queue[s])]
          /\ Return(w, Res(name, TRUE, "acted", QueueAt(queue[s], idx),
                         MovedNext(idx, queue[s])))
    /\ UNCHANGED <<recon, mailbox, cache, caller, queue, undo_actions, nextRow, gmail_calls, now, issued>>

\* mutant of Skip: a skip that also clears the undo ledger
Skip_Recording(w) ==
    /\ pc[w] = "dispatch"
    /\ req[w].name = "skip_email"
    /\ LET s == req[w].sessionId
           idx == req[w].current_index
       IN /\ sessions' = [sessions EXCEPT ![s] = MovedSession(@, idx, queue[s])]
          /\ Return(w, Res("skip_email", TRUE, "skipped", NoThread,
                         MovedNext(idx, queue[s])))
    /\ undo_actions' = {}
    /\ UNCHANGED <<recon, mailbox, cache, caller, queue, nextRow, gmail_calls, now, issued>>

\* handleSkip: moveToNextEmail only
Skip(w) ==
    /\ pc[w] = "dispatch"
    /\ req[w].name = "skip_email"
    /\ LET s == req[w].sessionId
           idx == req[w].current_index
       IN /\ sessions' = [sessions EXCEPT ![s] = MovedSession(@, idx, queue[s])]
          /\ Return(w, Res("skip_email", TRUE, "skipped", NoThread,
                         MovedNext(idx, queue[s])))
    /\ UNCHANGED <<recon, mailbox, cache, caller, queue, undo_actions, nextRow, gmail_calls, now, issued>>

\* handleUndo up to "if (!undoAction)": the select on undo_actions
UndoSelect(w) ==
    /\ pc[w] = "dispatch"
    /\ req[w].name = "undo_action"
    /\ LET row == MostRecent(LiveRows(undo_actions, req[w].sessionId, now))
       IN IF row = NoRow
          THEN Return(w, Res("undo_action", FALSE, "nothing_to_undo",
                             NoThread, NoThread))
          ELSE /\ undoAction' = [undoAction EXCEPT ![w] = row]
               /\ pc' = [pc EXCEPT ![w] = "undo_reverse"]
               /\ UNCHANGED <<req, result>>
    /\ UNCHANGED <<recon, mailbox, cache, caller, sessions, queue, undo_actions, nextRow, gmail_calls, now,
                   issued>>

\* handleUndo: getGmailClient, then the reverse Gmail call of the row
UndoReverse(w) ==
    /\ pc[w] = "undo_reverse"
    /\ \E outcome \in GmailOutcomes :
         /\ mailbox' = Mutated(outcome, undoAction[w].reverse_action,
                               undoAction[w].gmail_thread_id)
         /\ gmail_calls' =
              IF outcome = "no_client" THEN gmail_calls
              ELSE Append(gmail_calls,
                          [op |-> undoAction[w].reverse_action,
                           id |-> undoAction[w].gmail_thread_id,
                           ok |-> outcome = "ok"])
         /\ IF ProceedsAfter(outcome)
            THEN /\ pc' = [pc EXCEPT ![w] = "undo_delete"]
                 /\ UNCHANGED <<req, result, undoAction>>
            ELSE Return(w, Res("undo_action", FALSE,
                               IF outcome = "no_client" THEN "no_connect_undo"
                               ELSE "action_failed",
                               NoThread, NoThread))
    /\ UNCHANGED <<recon, cache, caller, sessions, queue, undo_actions, nextRow, now, issued>>

\* handleUndo: delete().eq('id', undoAction.id)
UndoDelete(w) ==
    /\ pc[w] = "undo_delete"
    /\ undo_actions' = {r \in undo_actions : r.id # undoAction[w].id}
    /\ pc' = [pc EXCEPT ![w] = "undo_jump"]
    /\ UNCHANGED <<recon, mailbox, cache, caller, sessions, queue, nextRow, gmail_calls, now, issued, req,
                   undoAction, result>>

\* handleUndo: "move back to that email", and the handler's return
UndoJump(w) ==
    /\ pc[w] = "undo_jump"
    /\ LET s == req[w].sessionId
           emailIndex == FindIndex(queue[s], undoAction[w].gmail_thread_id)
       IN /\ sessions' =
               IF emailIndex >= 0
               THEN [sessions EXCEPT ![s].current_index = emailIndex]
               ELSE sessions
          /\ Return(w, Res("undo_action", TRUE, undoAction[w].action_type,
                         undoAction[w].gmail_thread_id, NoThread))
    /\ UNCHANGED <<recon, mailbox, cache, caller, queue, undo_actions, nextRow, gmail_calls, now, issued>>

\* handleGetRemainingCount
RemainingMsg(remaining) ==
    IF remaining = 0 THEN "processed_all"
    ELSE IF remaining = 1 THEN "one_left" ELSE "n_remaining"

GetRemaining(w) ==
    /\ pc[w] = "dispatch"
    /\ req[w].name = "get_remaining_count"
    /\ LET q == queue[req[w].sessionId]
           currentIndex == req[w].current_index
           remaining == Len(q) - currentIndex
       IN Return(w, [Res("get_remaining_count", TRUE, RemainingMsg(remaining),
                         NoThread, NoThread)
                        EXCEPT !.remaining = remaining, !.total = Len(q),
                               !.current = currentIndex + 1])
    /\ UNCHANGED <<recon, mailbox, cache, caller, sessions, queue, undo_actions, nextRow, gmail_calls, now,
                   issued>>

\* handleEndSession
EndSession(w) ==
    /\ pc[w] = "dispatch"
    /\ req[w].name = "end_session"
    /\ LET s == req[w].sessionId
           processed == req[w].current_index
           remaining == Len(queue[s]) - processed
       IN /\ sessions' = [sessions EXCEPT ![s].status = "completed"]
          /\ Return(w, [Res("end_session", TRUE,
                          IF remaining > 0 THEN "session_ended"
                          ELSE "session_complete", NoThread, NoThread)
                         EXCEPT !.processed = processed,
                                !.remaining = remaining])
    /\ UNCHANGED <<recon, mailbox, cache, caller, queue, undo_actions, nextRow, gmail_calls, now, issued>>

\* handleGetCurrentEmail: getThread may throw, the cached item is used then
GetCurrent(w) ==
    /\ pc[w] = "dispatch"
    /\ req[w].name = "get_current_email"
    /\ LET currentEmail == QueueAt(queue[req[w].sessionId], req[w].current_index)
       IN IF currentEmail = NoThread
          THEN Return(w, Res("get_current_email", FALSE, "end_of_inbox_stop",
                             NoThread, NoThread))
          ELSE \E fetched \in BOOLEAN :
                 Return(w, [Res("get_current_email", TRUE,
                                IF fetched THEN "email_full" ELSE "email_cached",
                                currentEmail, NoThread)
                               EXCEPT !.email =
                                  [shape |-> IF fetched THEN "EmailThread"
                                             ELSE "QueueItem",
                                   threadId |-> currentEmail]])
    /\ UNCHANGED <<recon, mailbox, cache, caller, sessions, queue, undo_actions, nextRow, gmail_calls, now,
                   issued>>

\* time passes: a short wait, or a whole undo window
Tick ==
    /\ \E d \in {TickLen, UNDO_WINDOW_S} :
         /\ now + d <= MaxTime
         /\ now' = now + d
    /\ UNCHANGED <<recon, mailbox, cache, caller, sessions, queue, undo_actions, nextRow, gmail_calls,
                   issued, pc, req, undoAction, result>>

\* one step of the handler of request w
Handle(w) ==
    \/ ActBegin(w)
    \/ ActStore(w)
    \/ ActMove(w)
    \/ Skip(w)
    \/ UndoSelect(w)
    \/ UndoReverse(w)
    \/ UndoDelete(w)
    \/ UndoJump(w)
    \/ GetRemaining(w)
    \/ EndSession(w)
    \/ GetCurrent(w)

\* the caller delivers one request at a time and waits for the response
AllIdle == \A w \in Procs : pc[w] = "idle"

SerialReceive ==
    \E n \in 1..MaxBatch, first \in ToolNames :
        AllIdle /\ Receive(1, "s1", n, first)

Next ==
    \/ SerialReceive
    \/ Handle(1)
    \/ Tick

Spec == Init /\ [][Next]_vars

\* a caller that only archives, deletes, stars and undoes, one tool call per
\* request and one request at a time
UndoTools == ActNames \cup {"undo_action"}

UndoInit == InitWith(UndoTools, MaxUndoCommands)

SingleReceive ==
    \E first \in ToolNames : AllIdle /\ Receive(1, "s1", 1, first)

UndoNext ==
    \/ SingleReceive
    \/ ActBegin(1)
    \/ ActStore(1)
    \/ ActMove(1)
    \/ UndoSelect(1)
    \/ UndoReverse(1)
    \/ UndoDelete(1)
    \/ UndoJump(1)
    \/ Tick

UndoSpec == UndoInit /\ [][UndoNext]_vars

\* the caller may retry or double-fire: requests of one tool call each
\* overlap
OverlapReceive ==
    \E w \in Procs, first \in ToolNames : Receive(w, "s1", 1, first)

ConcNext ==
    \/ OverlapReceive
    \/ \E w \in Procs : Handle(w)
    \/ Tick

ConcSpec == Init /\ [][ConcNext]_vars

\* ------------------------------------------- session life cycle requests
\* the stats of the stop route's response and the counts of the GET route
Stats(r, s) ==
    [r EXCEPT !.total = Len(queue[s]),
              !.processed = sessions[s].current_index,
              !.remaining = Len(queue[s]) - sessions[s].current_index]

\* a request outside the tool-call loop is delivered and answered
Answered(r) ==
    /\ AllIdle
    /\ issued + 1 <= caller.budget
    /\ issued' = issued + 1
    /\ result' = [result EXCEPT ![1] = r]
    /\ UNCHANGED <<recon, mailbox, cache, caller, queue, undo_actions, nextRow, gmail_calls, now, pc,
                   req, undoAction>>

\* POST /api/session/stop: the Vapi call is ended if there is one (a failure
\* of endCall is ignored), then status 'paused' and vapi_call_id null are
\* written
SessionStop(s) ==
    /\ sessions' = [sessions EXCEPT ![s].status = "paused",
                                    ![s].vapi_call_id = NoCall]
    /\ Answered(Stats(Res("session_stop", TRUE, "session_paused",
                          NoThread, NoThread), s))

\* handleEndOfCallReport: status 'paused', vapi_call_id null
HandleEndOfCallReport(s) ==
    /\ sessions' = [sessions EXCEPT ![s].status = "paused",
                                    ![s].vapi_call_id = NoCall]
    /\ Answered(Res("end-of-call-report", TRUE, "received", NoThread, NoThread))

\* POST /api/session/voice: refused for a completed session, answered with
\* the running call if there is one; else createWebCall, which may throw
\* (500, nothing written), and then vapi_call_id and status 'active'
SessionVoice(s) ==
    IF sessions[s].status = "completed"
    THEN /\ Answered(Res("session_voice", FALSE, "already_completed",
                         NoThread, NoThread))
         /\ UNCHANGED sessions
    ELSE IF sessions[s].vapi_call_id # NoCall
    THEN /\ Answered(Res("session_voice", TRUE, "call_already_active",
                         NoThread, NoThread))
         /\ UNCHANGED sessions
    ELSE \E created \in BOOLEAN :
           IF created
           THEN /\ sessions' = [sessions EXCEPT ![s].status = "active",
                                                ![s].vapi_call_id = "call"]
                /\ Answered([Stats(Res("session_voice", TRUE, "call_started",
                                       NoThread, NoThread), s)
                               EXCEPT !.current =
                                         sessions[s].current_index + 1])
           ELSE /\ Answered(Res("session_voice", FALSE, "failed_to_start",
                                NoThread, NoThread))
                /\ UNCHANGED sessions

\* GET /api/session/[sessionId]: status, counts and current email are read
SessionGet(s) ==
    /\ Answered([Stats(Res("session_get", TRUE, sessions[s].status,
                           QueueAt(queue[s], sessions[s].current_index),
                           NoThread), s)
                   EXCEPT !.current = sessions[s].current_index])
    /\ UNCHANGED sessions

LifeInit == InitWith(ToolNames, MaxLifeCommands)

LifeNext ==
    \/ SingleReceive
    \/ Handle(1)
    \/ SessionStop("s1")
    \/ HandleEndOfCallReport("s1")
    \/ SessionVoice("s1")
    \/ SessionGet("s1")
    \/ Tick

\* the dispatcher's commands, one tool call per request, together with the
\* requests that pause and resume a session, one request at a time
LifeSpec == LifeInit /\ [][LifeNext]_vars

\* ----------------------------------------------------- request validation
\* a tool name outside the switch of processToolCall
UnknownNames == {"send_email"}
AnyNames == ToolNames \cup UnknownNames

\* metadata.sessionId of a request that is absent ("") or names no row
BadSessionIds == {"", "s9"}

\* handleToolCalls: no sessionId in the call metadata, or no such row: the
\* response has no results and an apology as spoken message
RejectedRequest(w) ==
    /\ AllIdle
    /\ issued + 1 <= caller.budget
    /\ issued' = issued + 1
    /\ \E sid \in BadSessionIds :
         result' = [result EXCEPT ![w] =
                      Res("tool-calls", FALSE,
                          IF sid = "" THEN "session_missing"
                          ELSE "session_not_found", NoThread, NoThread)]
    /\ UNCHANGED <<recon, mailbox, cache, caller, sessions, queue, undo_actions, nextRow, gmail_calls,
                   now, pc, req, undoAction>>

\* mutant of UnknownFunction: an unknown name falls through to the skip case
UnknownFunction_AsSkip(w) ==
    /\ pc[w] = "dispatch"
    /\ req[w].name \notin ToolNames
    /\ LET s == req[w].sessionId
           idx == req[w].current_index
       IN /\ sessions' = [sessions EXCEPT ![s] = MovedSession(@, idx, queue[s])]
          /\ Return(w, Res(req[w].name, TRUE, "skipped", NoThread,
                         MovedNext(idx, queue[s])))
    /\ UNCHANGED <<recon, mailbox, cache, caller, queue, undo_actions, nextRow, gmail_calls, now, issued>>

\* processToolCall, default case: { error: 'Unknown function' }
UnknownFunction(w) ==
    /\ pc[w] = "dispatch"
    /\ req[w].name \notin ToolNames
    /\ Return(w, Res(req[w].name, FALSE, "unknown_function", NoThread, NoThread))
    /\ UNCHANGED <<recon, mailbox, cache, caller, sessions, queue, undo_actions, nextRow, gmail_calls, now,
                   issued>>

AnyReceive ==
    \E n \in 1..MaxBatch, first \in AnyNames :
        AllIdle /\ Receive(1, "s1", n, first)

ValidInit == InitWith(AnyNames, MaxValidCommands)

ValidNext ==
    \/ AnyReceive
    \/ RejectedRequest(1)
    \/ Handle(1)
    \/ UnknownFunction(1)
    \/ Tick

\* a caller that also sends requests without a usable session id and tool
\* calls with names the dispatcher does not know
ValidSpec == ValidInit /\ [][ValidNext]_vars

\* ------------------------------------------------------------ reconciler
\* A string is modelled as the sequence of its whitespace-separated words.
\* A number between 0 and 1 is the pair <<numerator, denominator>> of an
\* exact fraction; for word counts this small the double arithmetic of the
\* source compares scores the same way.

\* toLowerCase and the removal of punctuation, on one word
NormWord(w) ==
    CASE w = "Q1" -> "q1"
      [] w = "Report!" -> "report"
      [] w = "Ann" -> "ann"
      [] w = "--" -> ""
      [] w = "ann@x.com" -> "annxcom"
      [] w = "bob@y.com" -> "bobycom"
      [] w = "zed@z.com" -> "zedzcom"
      [] OTHER -> w

\* normalize: the words that are left, separated by single spaces
normalize(str) ==
    SelectSeq([i \in 1..Len(str) |-> NormWord(str[i])], LAMBDA x : x # "")

\* String.split(' '): the empty string splits into one empty word
Split(str) == IF str = <<>> THEN <<"">> ELSE str

\* new Set(normalize(x).split(' '))
WordSet(str) == {Split(normalize(str))[i] : i \in 1..Len(Split(normalize(str)))}

\* mutant of Min: the larger of the two sizes
Min_Max(a, b) == IF a >= b THEN a ELSE b

\* Math.min
Min(a, b) == IF a <= b THEN a ELSE b

\* the overlap coefficient of the two word sets
similarity(a, b) ==
    LET aWords == WordSet(a)
        bWords == WordSet(b)
        overlap == Cardinality(aWords \cap bWords)
        minSize == Min(Cardinality(aWords), Cardinality(bWords))
    IN IF Cardinality(aWords) = 0 /\ Cardinality(bWords) = 0 THEN <<1, 1>>
       ELSE IF Cardinality(aWords) = 0 \/ Cardinality(bWords) = 0 THEN <<0, 1>>
       ELSE <<overlap, minSize>>

\* what stands between < and > in a word, "" when the word has no such part
AngleInner(w) ==
    CASE w = "<ann@x.com>" -> "ann@x.com"
      [] w = "<bob@y.com>" -> "bob@y.com"
      [] OTHER -> ""

\* extractEmail: the address between < and >, else the sender as it is
extractEmail(sender) ==
    IF \E i \in 1..Len(sender) : AngleInner(sender[i]) # ""
    THEN LET i == CHOOSE k \in 1..Len(sender) :
                     /\ AngleInner(sender[k]) # ""
                     /\ \A j \in 1..(k - 1) : AngleInner(sender[j]) = ""
         IN <<AngleInner(sender[i])>>
    ELSE sender

\* subjectScore * 0.7 + senderScore * 0.3
Score(shThread, gmailThread) ==
    LET subjectScore == similarity(shThread.subject, gmailThread.subject)
        senderScore == similarity(extractEmail(shThread.sender),
                                  gmailThread.senderEmail)
    IN <<7 * subjectScore[1] * senderScore[2] + 3 * senderScore[1] * subjectScore[2],
         10 * subjectScore[2] * senderScore[2]>>

\* mutant of Better: a candidate that only equals the best score replaces it
Better_OrEqual(score, bestScore) == score[1] * bestScore[2] >= bestScore[1] * score[2]

\* score > bestScore
Better(score, bestScore) == score[1] * bestScore[2] > bestScore[1] * score[2]

\* mutant of AboveThreshold: a score of exactly one half is accepted
AboveThreshold_Inclusive(score) == 2 * score[1] >= score[2]

\* score > 0.5
AboveThreshold(score) == 2 * score[1] > score[2]

\* mutant of Unused: the used set is not consulted
Unused_Always(gmailThread, usedGmailThreads) == TRUE

\* !usedGmailThreads.has(g.threadId)
Unused(gmailThread, usedGmailThreads) == gmailThread.threadId \notin usedGmailThreads

\* no match yet: bestMatch = null (index 0), bestScore = 0, matchMethod = none
NoMatch == [match |-> 0, score |-> <<0, 1>>, method |-> "none"]

\* mutant of ExactMatch: the thread id of the observation is never tried
ExactMatch_Never(shThread, gmailThreads, usedGmailThreads) == 0

\* gmailThreads.find(same thread id and not used): its index, 0 for undefined
ExactMatch(shThread, gmailThreads, usedGmailThreads) ==
    LET hits == {k \in 1..Len(gmailThreads) :
                   /\ gmailThreads[k].threadId = shThread.superhumanThreadId
                   /\ Unused(gmailThreads[k], usedGmailThreads)}
    IN IF shThread.superhumanThreadId # "" /\ hits # {}
       THEN CHOOSE k \in hits : \A j \in hits : k <= j
       ELSE 0

RECURSIVE FuzzyFrom(_, _, _, _, _)
\* the fuzzy loop over gmailThreads from index k on
FuzzyFrom(shThread, gmailThreads, usedGmailThreads, k, best) ==
    IF k > Len(gmailThreads) THEN best
    ELSE IF ~ Unused(gmailThreads[k], usedGmailThreads)
    THEN FuzzyFrom(shThread, gmailThreads, usedGmailThreads, k + 1, best)
    ELSE LET score == Score(shThread, gmailThreads[k])
         IN FuzzyFrom(shThread, gmailThreads, usedGmailThreads, k + 1,
                      IF Better(score, best.score) /\ AboveThreshold(score)
                      THEN [match |-> k, score |-> score, method |-> "fuzzy"]
                      ELSE best)

\* one iteration of the loop of mapThreads: the MappedThread it pushes;
\* gmailThread is the index of the matched element of gmailThreads, 0 for null
MapOne(shThread, gmailThreads, usedGmailThreads) ==
    LET exactMatch == ExactMatch(shThread, gmailThreads, usedGmailThreads)
        best == IF exactMatch # 0
                THEN [match |-> exactMatch, score |-> <<1, 1>>, method |-> "exact"]
                ELSE FuzzyFrom(shThread, gmailThreads, usedGmailThreads, 1, NoMatch)
    IN [position |-> shThread.position,
        superhumanThread |-> shThread,
        gmailThread |-> best.match,
        matchConfidence |-> best.score,
        matchMethod |-> IF best.match # 0 THEN best.method ELSE "none"]

RECURSIVE Insert(_, _)
\* x goes behind every element whose position is not greater
Insert(sorted, x) ==
    IF sorted = <<>> THEN <<x>>
    ELSE IF sorted[Len(sorted)].position <= x.position THEN Append(sorted, x)
    ELSE Append(Insert(SubSeq(sorted, 1, Len(sorted) - 1), x), sorted[Len(sorted)])

RECURSIVE SortFrom(_, _, _)
SortFrom(sorted, mappedThreads, k) ==
    IF k > Len(mappedThreads) THEN sorted
    ELSE SortFrom(Insert(sorted, mappedThreads[k]), mappedThreads, k + 1)

\* mutant of SortByPosition: the results stay in the order they were pushed
SortByPosition_Unsorted(mappedThreads) == mappedThreads

\* Array.prototype.sort((a, b) => a.position - b.position): stable
SortByPosition(mappedThreads) == SortFrom(<<>>, mappedThreads, 1)

\* getOrderedGmailThreadIds on an array that is already sorted: filter, map
MatchedIds(mappedThreads, gmailThreads) ==
    LET kept == SelectSeq(mappedThreads, LAMBDA t : t.gmailThread # 0)
    IN [i \in 1..Len(kept) |-> gmailThreads[kept[i].gmailThread].threadId]

\* scraped rows: the thread id of the data attribute ('' when there is none),
\* subject and sender as displayed
ObsTemplates ==
    {[superhumanThreadId |-> "", subject |-> <<"Q1", "Report!">>,
      sender |-> <<"Ann", "<ann@x.com>">>],
     [superhumanThreadId |-> "t2", subject |-> <<"lunch">>,
      sender |-> <<"bob@y.com">>],
     [superhumanThreadId |-> "", subject |-> <<"q1">>,
      sender |-> <<"zed@z.com">>],
     [superhumanThreadId |-> "", subject |-> <<"a", "x">>,
      sender |-> <<"ann", "doe">>],
     [superhumanThreadId |-> "", subject |-> <<"a", "b", "x", "y", "z">>,
      sender |-> <<"--">>]}

\* threads of the Gmail list: two of them share the thread id t1, one has
\* only punctuation as subject and no sender address
CanonTemplates ==
    {[threadId |-> "t1", subject |-> <<"q1", "report">>,
      senderEmail |-> <<"ann@x.com">>],
     [threadId |-> "t2", subject |-> <<"q1", "budget">>,
      senderEmail |-> <<"ann@x.com">>],
     [threadId |-> "t1", subject |-> <<"lunch">>,
      senderEmail |-> <<"bob@y.com">>],
     [threadId |-> "t3", subject |-> <<"a", "b", "c", "d", "e">>,
      senderEmail |-> <<"ann", "lee">>],
     [threadId |-> "t4", subject |-> <<"--">>, senderEmail |-> <<>>]}

\* the observation at place i of n: position is the index, or counts down
Placed(o, i, n, order) ==
    [superhumanThreadId |-> o.superhumanThreadId, subject |-> o.subject,
     sender |-> o.sender,
     position |-> IF order = "index" THEN i - 1 ELSE n - i]

ObsLists ==
    UNION {{[i \in 1..n |-> Placed(f[i], i, n, order)] :
              f \in [1..n -> ObsTemplates], order \in {"index", "reversed"}} :
           n \in 0..MaxObs}

CanonLists == UNION {[1..n -> CanonTemplates] : n \in 0..MaxCanon}

\* POST /map-threads received a body
MapInit ==
    /\ StoreInit({}, 0)
    /\ queue = [s \in SessionIds |-> <<>>]
    /\ mailbox = [t \in ThreadIds |-> FreshLabels]
    /\ \E shs \in ObsLists, gs \in CanonLists :
         recon = [NoRecon EXCEPT !.step = "mapping",
                                 !.superhumanThreads = shs,
                                 !.gmailThreads = gs]

\* mapThreads: one iteration of the loop over superhumanThreads
MapStep ==
    /\ recon.step = "mapping"
    /\ Len(recon.results) < Len(recon.superhumanThreads)
    /\ LET shThread == recon.superhumanThreads[Len(recon.results) + 1]
           mapped == MapOne(shThread, recon.gmailThreads, recon.used)
       IN recon' = [recon EXCEPT
                      !.results = Append(@, mapped),
                      !.used = IF mapped.gmailThread # 0
                               THEN @ \cup {recon.gmailThreads[mapped.gmailThread].threadId}
                               ELSE @]
    /\ UNCHANGED <<mailbox, cache, caller, sessions, queue, undo_actions, nextRow, gmail_calls,
                   now, issued, pc, req, undoAction, result>>

\* mapThreads: return results
MapReturn ==
    /\ recon.step = "mapping"
    /\ Len(recon.results) = Len(recon.superhumanThreads)
    /\ recon' = [recon EXCEPT !.step = "mapped"]
    /\ UNCHANGED <<mailbox, cache, caller, sessions, queue, undo_actions, nextRow, gmail_calls,
                   now, issued, pc, req, undoAction, result>>

\* getOrderedGmailThreadIds: sorts the array it was given, in place
Order ==
    /\ recon.step = "mapped"
    /\ recon' = [recon EXCEPT
                   !.step = "ordered",
                   !.results = SortByPosition(@),
                   !.orderedIds = MatchedIds(SortByPosition(recon.results),
                                             recon.gmailThreads)]
    /\ UNCHANGED <<mailbox, cache, caller, sessions, queue, undo_actions, nextRow, gmail_calls,
                   now, issued, pc, req, undoAction, result>>

MapNext == MapStep \/ MapReturn \/ Order

\* one request to the reconciler
MapSpec == MapInit /\ [][MapNext]_vars

\* --------------------------------------------------------- session start
\* no row in the sessions table
NoSession == [status |-> "none", current_index |-> 0, vapi_call_id |-> NoCall]

\* the row the start route inserts
CreatedSession == [status |-> "active", current_index |-> 0, vapi_call_id |-> NoCall]

\* ways the start route ends up with the Gmail order: useGmailOrder was set,
\* getSessionStatus threw, hasSession was false, scrapeInbox threw
FallbackPaths == {"use_gmail_order", "railway_down", "no_railway_session",
                  "scrape_fails"}

\* mutant of GmailOrder: the fallback queue is the Gmail list backwards
GmailOrder_Reversed(gmailThreads) ==
    [i \in 1..Len(gmailThreads) |->
       [position |-> i - 1,
        threadId |-> gmailThreads[Len(gmailThreads) + 1 - i].threadId]]

\* gmailThreads.map((t, index) => ({ position: index, threadId: t.threadId }))
GmailOrder(gmailThreads) ==
    [i \in 1..Len(gmailThreads) |->
       [position |-> i - 1, threadId |-> gmailThreads[i].threadId]]

\* mutant of MappedOrder: positions count from 1
MappedOrder_OneBased(orderedGmailIds) ==
    [i \in 1..Len(orderedGmailIds) |->
       [position |-> i, threadId |-> orderedGmailIds[i]]]

\* orderedGmailIds.map((threadId, index) => ({ position: index, threadId }))
MappedOrder(orderedGmailIds) ==
    [i \in 1..Len(orderedGmailIds) |->
       [position |-> i - 1, threadId |-> orderedGmailIds[i]]]

\* the start route gives up with an error response: its locals are gone
GaveUp(msg) ==
    /\ recon' = [recon EXCEPT !.step = "idle", !.results = <<>>, !.used = {},
                              !.orderedIds = <<>>, !.path = "none",
                              !.queueSnapshot = <<>>]
    /\ result' = [result EXCEPT ![1] =
                    Res("session_start", FALSE, msg, NoThread, NoThread)]

\* POST /api/session/start up to the choice of the ordering
SessionStart ==
    /\ recon.step = "idle"
    /\ sessions["s1"] = NoSession
    /\ \/ GaveUp("gmail_fetch_failed")
       \/ \E path \in FallbackPaths :
            /\ recon' = [recon EXCEPT
                           !.step = "insert", !.path = path,
                           !.queueSnapshot = GmailOrder(recon.gmailThreads)]
            /\ UNCHANGED result
       \/ /\ recon' = [recon EXCEPT !.step = "mapping", !.path = "mapped"]
          /\ UNCHANGED result
    /\ UNCHANGED <<mailbox, cache, caller, sessions, queue, undo_actions, nextRow, gmail_calls,
                   now, issued, pc, req, undoAction>>

\* the answer of /map-threads arrives, or the call throws
StartSnapshot ==
    /\ recon.step = "ordered"
    /\ recon.path = "mapped"
    /\ \/ GaveUp("start_failed")
       \/ /\ recon' = [recon EXCEPT
                         !.step = "insert",
                         !.queueSnapshot = MappedOrder(recon.orderedIds)]
          /\ UNCHANGED result
    /\ UNCHANGED <<mailbox, cache, caller, sessions, queue, undo_actions, nextRow, gmail_calls,
                   now, issued, pc, req, undoAction>>

\* the insert into sessions and the response
StartInsert ==
    /\ recon.step = "insert"
    /\ \/ /\ GaveUp("create_failed")
          /\ UNCHANGED <<sessions, queue>>
       \/ LET queueSnapshot == recon.queueSnapshot
              firstEmail == IF Len(queueSnapshot) > 0
                            THEN [shape |-> "QueueItem",
                                  threadId |-> queueSnapshot[1].threadId]
                            ELSE NoEmail
          IN /\ sessions' = [sessions EXCEPT !["s1"] = CreatedSession]
             /\ queue' = [queue EXCEPT !["s1"] =
                            [i \in 1..Len(queueSnapshot) |-> queueSnapshot[i].threadId]]
             /\ result' = [result EXCEPT ![1] =
                             [Res("session_start", TRUE,
                                  IF recon.path = "mapped" THEN "mapped"
                                  ELSE "gmail_order",
                                  firstEmail.threadId, NoThread)
                                EXCEPT !.total = Len(queueSnapshot),
                                       !.email = firstEmail]]
             /\ recon' = [NoRecon EXCEPT !.step = "started"]
    /\ UNCHANGED <<mailbox, cache, caller, undo_actions, nextRow, gmail_calls, now, issued, pc,
                   req, undoAction>>

\* what getInboxThreads can return: threads of the mailbox, and threads.list
\* names a thread once
InboxLists ==
    {g \in CanonLists :
       /\ \A i \in 1..Len(g) : g[i].threadId \in ThreadIds
       /\ \A i, j \in 1..Len(g) : i # j => g[i].threadId # g[j].threadId}

\* what scrapeInbox can return: the scraper numbers the rows it finds
ScrapedLists == {o \in ObsLists : \A i \in 1..Len(o) : o[i].position = i - 1}

\* no session yet; the inbox as Gmail lists it and as the scraper would see it
StartInit ==
    /\ caller = [tools |-> ToolNames, budget |-> MaxStartCommands]
    /\ cache = NoCache
    /\ queue = [s \in SessionIds |-> <<>>]
    /\ sessions = [s \in SessionIds |-> NoSession]
    /\ undo_actions = {}
    /\ nextRow = 1
    /\ gmail_calls = <<>>
    /\ now = 0
    /\ issued = 0
    /\ pc = [w \in Procs |-> "idle"]
    /\ req = [w \in Procs |-> IdleReq]
    /\ undoAction = [w \in Procs |-> NoRow]
    /\ result = [w \in Procs |-> NoResult]
    /\ mailbox = [t \in ThreadIds |-> FreshLabels]
    /\ \E shs \in ScrapedLists, gs \in InboxLists :
         recon = [NoRecon EXCEPT !.superhumanThreads = shs, !.gmailThreads = gs]

\* tool calls for the session that was started
StartedReceive == recon.step = "started" /\ SingleReceive

StartNext ==
    \/ SessionStart
    \/ MapStep
    \/ MapReturn
    \/ Order
    \/ StartSnapshot
    \/ StartInsert
    \/ StartedReceive
    \/ Handle(1)
    \/ Tick

\* a session is started and then driven by single tool calls
StartSpec == StartInit /\ [][StartNext]_vars

\* ------------------------------------------------ standalone action routes
\* threads the action routes are called for
ActionThreads == {"t1", "t2"}

\* the action field of POST /api/actions/star
StarActions == {"star", "unstar", "toggle"}

\* a Gmail call of an action route or of the undo route, as the log keeps it:
\* who called, and the labels the thread had before the call
Logged(op, id, outcome, by) ==
    IF outcome = "no_client" THEN gmail_calls
    ELSE Append(gmail_calls,
                [op |-> op, id |-> id, ok |-> outcome = "ok", by |-> by,
                 before |-> mailbox[id]])

\* the undo_actions row of an action route: no session_id
ActionRow(threadId, actionType, reverseType) ==
    [id |-> nextRow, session_id |-> "null",
     action_type |-> actionType,
     gmail_thread_id |-> threadId,
     reverse_action |-> reverseType,
     created_at |-> nextRow,
     expires_at |-> ExpiresAt(now)]

\* an action route: getGmailClient, the Gmail call, the insert, the response
ActionRoute(name, threadId, op, actionType, reverseType) ==
    /\ issued + 1 <= caller.budget
    /\ issued' = issued + 1
    /\ \E outcome \in GmailOutcomes :
         /\ mailbox' = Mutated(outcome, op, threadId)
         /\ gmail_calls' = Logged(op, threadId, outcome, "action")
         /\ IF ProceedsAfter(outcome)
            THEN /\ undo_actions' = undo_actions \cup
                       {ActionRow(threadId, actionType, reverseType)}
                 /\ nextRow' = nextRow + 1
                 /\ result' = [result EXCEPT ![1] =
                                 Res(name, TRUE, op, threadId, NoThread)]
            ELSE /\ UNCHANGED <<undo_actions, nextRow>>
                 /\ result' = [result EXCEPT ![1] =
                                 Res(name, FALSE,
                                     IF outcome = "no_client" THEN "no_connect"
                                     ELSE "action_failed",
                                     threadId, NoThread)]
    /\ UNCHANGED <<recon, cache, caller, sessions, queue, now, pc, req, undoAction>>

\* POST /api/actions/delete
ActionsDelete(threadId) ==
    ActionRoute("actions_delete", threadId, "delete", "delete", "undelete")

\* POST /api/actions/star: toggle reads isThreadStarred, star and unstar do not
ActionsStar(threadId, action) ==
    LET shouldStar == IF action = "toggle" THEN ~ mailbox[threadId].starred
                      ELSE action = "star"
    IN ActionRoute("actions_star", threadId,
                   IF shouldStar THEN "star" ELSE "unstar", "star",
                   IF shouldStar THEN "unstar" ELSE "star")

\* POST /api/actions/undo: the newest live row of the thread, its reverse
\* Gmail call, the delete of the row
ActionsUndo(threadId) ==
    /\ issued + 1 <= caller.budget
    /\ issued' = issued + 1
    /\ LET row == MostRecent({r \in undo_actions :
                                /\ r.gmail_thread_id = threadId
                                /\ r.expires_at > now})
       IN IF row = NoRow
          THEN /\ result' = [result EXCEPT ![1] =
                               Res("actions_undo", FALSE, "no_undo", threadId,
                                   NoThread)]
               /\ UNCHANGED <<mailbox, gmail_calls, undo_actions>>
          ELSE \E outcome \in GmailOutcomes :
                 /\ mailbox' = Mutated(outcome, row.reverse_action, threadId)
                 /\ gmail_calls' = Logged(row.reverse_action, threadId, outcome,
                                          "undo")
                 /\ IF ProceedsAfter(outcome)
                    THEN /\ undo_actions' = {r \in undo_actions : r.id # row.id}
                         /\ result' = [result EXCEPT ![1] =
                                         Res("actions_undo", TRUE, row.action_type,
                                             threadId, NoThread)]
                    ELSE /\ UNCHANGED undo_actions
                         /\ result' = [result EXCEPT ![1] =
                                         Res("actions_undo", FALSE,
                                             IF outcome = "no_client"
                                             THEN "no_connect"
                                             ELSE "undo_failed",
                                             threadId, NoThread)]
    /\ UNCHANGED <<recon, cache, caller, sessions, queue, nextRow, now, pc, req, undoAction>>

\* labels a thread can have when a route is called for it
LabelChoices ==
    {[inbox |-> TRUE, trash |-> tr, starred |-> st] : tr, st \in BOOLEAN}

\* no voice session is running; the threads have any labels
ActionsInit ==
    /\ StoreInit({}, MaxActionCommands)
    /\ queue = [s \in SessionIds |-> <<>>]
    /\ recon = NoRecon
    /\ \E l \in LabelChoices :
         mailbox = [t \in ThreadIds |-> IF t = "t1" THEN l ELSE FreshLabels]

ActionsNext ==
    \/ \E t \in ActionThreads : ActionsDelete(t)
    \/ \E t \in ActionThreads, action \in StarActions : ActionsStar(t, action)
    \/ \E t \in ActionThreads : ActionsUndo(t)
    \/ Tick

\* requests to the three standalone routes, one at a time
ActionsSpec == ActionsInit /\ [][ActionsNext]_vars

\* ------------------------------------------- two sessions and the routes
\* the tool calls sent to the sessions: one kind of act, and undo
MixTools == {"archive_email", "undo_action"}

\* the thread the standalone routes are called for: the head of the inbox
MixThreads == {Inbox[1]}

\* a tool call arrives for either session
EitherReceive ==
    \E s \in SessionIds, first \in MixTools :
        AllIdle /\ Receive(1, s, 1, first)

MixInit == InitWith(MixTools, MaxMixCommands)

MixNext ==
    \/ EitherReceive
    \/ ActBegin(1)
    \/ ActStore(1)
    \/ ActMove(1)
    \/ UndoSelect(1)
    \/ UndoReverse(1)
    \/ UndoDelete(1)
    \/ UndoJump(1)
    \/ \E t \in MixThreads : AllIdle /\ ActionsDelete(t)
    \/ \E t \in MixThreads : AllIdle /\ ActionsUndo(t)
    \/ Tick

\* two voice sessions over the same inbox and the standalone delete and undo
\* routes share the undo_actions table; requests are served one at a time
MixSpec == MixInit /\ [][MixNext]_vars

\* ------------------------------------------------- ending a session early
\* the tool calls of a caller that acts, skips and ends the session
EndTools == ActNames \cup {"skip_email", "end_session"}

EndInit == InitWith(EndTools, MaxEndCommands)

EndNext ==
    \/ SingleReceive
    \/ ActBegin(1)
    \/ ActStore(1)
    \/ ActMove(1)
    \/ Skip(1)
    \/ EndSession(1)
    \/ Tick

\* single tool calls, none of them an undo: a session is only completed by
\* running off the end of its queue or by end_session
EndSpec == EndInit /\ [][EndNext]_vars

\* ----------------------------------- scraping service: the saved sessions
\* elapsed > SESSION_TTL
Expired(session, t) == t - session.lastActivity > SESSION_TTL

\* saveSession: sessions.set(accountEmail, {.., lastActivity: new Date(),
\* isActive: true})
saveSession(m, a, t) ==
    [m EXCEPT ![a] = [accountEmail |-> a, lastActivity |-> t, isActive |-> TRUE]]

\* getSession, what it returns: null for no entry and for an expired one
getSession(m, a, t) ==
    IF m[a] = NoSaved THEN NoSaved
    ELSE IF Expired(m[a], t) THEN NoSaved ELSE m[a]

\* getSession, the map it leaves: an expired entry is deleted
AfterGet(m, a, t) ==
    IF m[a] # NoSaved /\ Expired(m[a], t) THEN [m EXCEPT ![a] = NoSaved] ELSE m

\* updateActivity: stamps the entry sessions.get returns, whatever its age
updateActivity(m, a, t) ==
    IF m[a] # NoSaved THEN [m EXCEPT ![a].lastActivity = t] ELSE m

\* invalidateSession
invalidateSession(m, a) == [m EXCEPT ![a] = NoSaved]

\* a handler of the service ran: the map it left and what it answered
Served(m, op, a, found, active) ==
    [cache EXCEPT !.sessions = m,
                  !.answer = [op |-> op, accountEmail |-> a, found |-> found,
                              isActive |-> active]]

\* POST /session/save
SessionSave(a) ==
    /\ cache' = Served(saveSession(cache.sessions, a, cache.clock), "save", a,
                       TRUE, TRUE)
    /\ UNCHANGED <<sessions, queue, undo_actions, nextRow, gmail_calls, now,
                   caller, issued, pc, req, undoAction, result, mailbox, recon>>

\* POST /session/restore: getCookies, 404 without cookies, else
\* updateActivity
SessionRestore(a) ==
    /\ LET got == getSession(cache.sessions, a, cache.clock)
           m == AfterGet(cache.sessions, a, cache.clock)
       IN cache' = IF got = NoSaved
                   THEN Served(m, "restore", a, FALSE, FALSE)
                   ELSE Served(updateActivity(m, a, cache.clock), "restore", a,
                               TRUE, got.isActive)
    /\ UNCHANGED <<sessions, queue, undo_actions, nextRow, gmail_calls, now,
                   caller, issued, pc, req, undoAction, result, mailbox, recon>>

\* GET /session/status: getSession, then isSessionActive (getSession again)
SessionStatus(a) ==
    /\ LET got == getSession(cache.sessions, a, cache.clock)
           m == AfterGet(cache.sessions, a, cache.clock)
       IN cache' = Served(m, "status", a, got # NoSaved,
                          getSession(m, a, cache.clock).isActive)
    /\ UNCHANGED <<sessions, queue, undo_actions, nextRow, gmail_calls, now,
                   caller, issued, pc, req, undoAction, result, mailbox, recon>>

\* POST /session/invalidate
SessionInvalidate(a) ==
    /\ cache' = Served(invalidateSession(cache.sessions, a), "invalidate", a,
                       FALSE, FALSE)
    /\ UNCHANGED <<sessions, queue, undo_actions, nextRow, gmail_calls, now,
                   caller, issued, pc, req, undoAction, result, mailbox, recon>>

\* POST /scrape-inbox with an accountEmail: the cookies of the request if it
\* brings any, else the saved ones (getCookies, updateActivity); when the
\* inbox has loaded, updateActivity(accountEmail). A page that does not load
\* throws before that.
ScrapeInbox(a, withCookies, loaded) ==
    /\ LET got == getSession(cache.sessions, a, cache.clock)
           m1 == IF withCookies THEN cache.sessions
                 ELSE IF got # NoSaved
                      THEN updateActivity(AfterGet(cache.sessions, a, cache.clock),
                                          a, cache.clock)
                      ELSE AfterGet(cache.sessions, a, cache.clock)
           m2 == IF loaded THEN updateActivity(m1, a, cache.clock) ELSE m1
       IN cache' = Served(m2, "scrape", a, (~ withCookies) /\ got # NoSaved,
                          loaded)
    /\ UNCHANGED <<sessions, queue, undo_actions, nextRow, gmail_calls, now,
                   caller, issued, pc, req, undoAction, result, mailbox, recon>>

\* setInterval(.., 60 * 1000): every expired entry is deleted
Sweep ==
    /\ cache.clock >= cache.nextSweep
    /\ cache' = [cache EXCEPT
                   !.sessions = [a \in Accounts |->
                                   IF cache.sessions[a] # NoSaved
                                      /\ Expired(cache.sessions[a], cache.clock)
                                   THEN NoSaved ELSE cache.sessions[a]],
                   !.nextSweep = @ + SWEEP_EVERY]
    /\ UNCHANGED <<sessions, queue, undo_actions, nextRow, gmail_calls, now,
                   caller, issued, pc, req, undoAction, result, mailbox, recon>>

\* the service's clock moves on; a sweep that is due runs first
CacheTick ==
    /\ cache.clock < MaxCacheTime
    /\ cache.clock < cache.nextSweep
    /\ cache' = [cache EXCEPT !.clock = @ + 1]
    /\ UNCHANGED <<sessions, queue, undo_actions, nextRow, gmail_calls, now,
                   caller, issued, pc, req, undoAction, result, mailbox, recon>>

\* no voice session is looked at
CacheInit ==
    /\ StoreInit({}, 0)
    /\ queue = [s \in SessionIds |-> <<>>]
    /\ mailbox = [t \in ThreadIds |-> FreshLabels]
    /\ recon = NoRecon

CacheNext ==
    \/ \E a \in Accounts : SessionSave(a)
    \/ \E a \in Accounts : SessionRestore(a)
    \/ \E a \in Accounts : SessionStatus(a)
    \/ \E a \in Accounts : SessionInvalidate(a)
    \/ \E a \in Accounts, withCookies, loaded \in BOOLEAN :
         ScrapeInbox(a, withCookies, loaded)
    \/ Sweep
    \/ CacheTick

\* the scraping service under any requests
CacheSpec == CacheInit /\ [][CacheNext]_vars


\* ================================================================ claims
ActKinds == {"archive", "delete", "star"}
ReverseKinds == {"unarchive", "undelete", "unstar"}

\* the handler of request 1 is between two tool calls, or has responded
AtRest == pc[1] \in {"idle", "dispatch"}

\* this step is one in which a processToolCall of request 1 returned
Returned == pc[1] # "idle" /\ pc'[1] \in {"idle", "dispatch"} /\ req'[1] # req[1]

\* C1: in every reachable state the cursor of every session satisfies
\* 0 <= cursor <= len(queue), also after a skip at the end of the queue and
\* for a session created with an empty queue.
C1_CursorInBounds ==
    \A s \in SessionIds :
        /\ sessions[s].current_index >= 0
        /\ sessions[s].current_index <= Len(queue[s])

\* C2: commands of one session are processed strictly one at a time, so the
\* outcome of two overlapping requests is that of some serial order; in
\* particular no queue item is mutated twice by two acts that both saw it as
\* current: between two successful act calls on the same thread there is a
\* successful reverse call on it (the undo that made it current again).
C2_NoItemActedTwice ==
    \A i, j \in DOMAIN gmail_calls :
        ( /\ i < j
          /\ gmail_calls[i].ok /\ gmail_calls[i].op \in ActKinds
          /\ gmail_calls[j].ok /\ gmail_calls[j].op \in ActKinds
          /\ gmail_calls[i].id = gmail_calls[j].id )
        => \E k \in (i + 1)..(j - 1) :
              /\ gmail_calls[k].ok
              /\ gmail_calls[k].op \in ReverseKinds
              /\ gmail_calls[k].id = gmail_calls[i].id

\* the kind-specific inverse named in the spec (archive <-> unarchive, ...)
InverseOf(kind) ==
    CASE kind = "archive" -> "unarchive"
      [] kind = "delete" -> "undelete"
      [] kind = "star" -> "unstar"

\* the Gmail call before the last one is a successful act: at the end of an
\* undo, the last mutation before this undo's reverse call was that act
PrevCallIsAct ==
    /\ Len(gmail_calls) >= 2
    /\ gmail_calls[Len(gmail_calls) - 1].ok
    /\ gmail_calls[Len(gmail_calls) - 1].op \in ActKinds

\* C3: when an act succeeded on the item at position p and the undo that
\* follows it (entry unexpired, reverse mutation successful) completes, the
\* reverse call was the inverse of that act on that item, the cursor is p
\* again (the acted item is current) and the entry that act recorded (the
\* last row inserted) is no longer in the ledger.
C3_UndoRestores ==
    [][ (pc[1] = "undo_jump" /\ pc'[1] # "undo_jump" /\ PrevCallIsAct) =>
          LET n == Len(gmail_calls)
              act == gmail_calls[n - 1]
          IN /\ gmail_calls[n] =
                  [op |-> InverseOf(act.op), id |-> act.id, ok |-> TRUE]
             /\ undoAction[1].id = nextRow - 1
             /\ QueueAt(queue["s1"], sessions'["s1"].current_index) = act.id
             /\ \A r \in undo_actions' : r.id # nextRow - 1
             /\ result'[1].name = "undo_action" /\ result'[1].success
      ]_vars

\* C3 witness: skip, act on the second item, undo: the undo has completed and
\* the cursor is back on the second item
C3_Witness ==
    /\ pc[1] = "idle"
    /\ result[1].name = "undo_action" /\ result[1].success
    /\ PrevCallIsAct
    /\ gmail_calls[Len(gmail_calls)].ok
    /\ sessions["s1"].current_index = 1
    /\ QueueAt(queue["s1"], 1) = gmail_calls[Len(gmail_calls) - 1].id
    /\ undo_actions = {}

\* request 1 is about to run tool call `name`, and this step is not the clock's
Runs(name) == pc[1] = "dispatch" /\ req[1].name = name /\ now' = now

\* the session of request 1 has no ledger entry with expiresAt > now
NoLiveEntry ==
    ~ \E r \in undo_actions :
          r.session_id = req[1].sessionId /\ r.expires_at > now

\* C4: undo issued when the session has no entry with expiresAt > now
\* (never acted, entry consumed, or window elapsed) returns the "nothing to
\* undo" failure, makes no Gmail call and leaves cursor, status and ledger
\* unchanged (after archive at p and expiry the cursor stays p + 1).
C4_NothingToUndo ==
    [][ (Runs("undo_action") /\ NoLiveEntry) =>
          /\ pc'[1] \in {"idle", "dispatch"}
          /\ result'[1].name = "undo_action"
          /\ result'[1].msg = "nothing_to_undo"
          /\ ~ result'[1].success
          /\ UNCHANGED <<sessions, undo_actions, gmail_calls>>
      ]_vars

\* C4 witness: an undo answered "nothing to undo" while the entry of the act
\* on the item before the cursor is still in the ledger, expired
C4_Witness ==
    /\ pc[1] = "idle"
    /\ result[1].msg = "nothing_to_undo"
    /\ \E r \in undo_actions :
          /\ r.session_id = "s1"
          /\ r.expires_at <= now
          /\ QueueAt(queue["s1"], sessions["s1"].current_index - 1)
                = r.gmail_thread_id

\* C5: undo is single-action-depth: the entry an undo selects for reversal
\* is the most recently recorded entry of the session (the last row
\* inserted), never an older entry that a newer one superseded, even after
\* the newer one was consumed by a successful undo.
C5_OnlyNewestReversed ==
    [][ (pc[1] = "dispatch" /\ pc'[1] = "undo_reverse") =>
          undoAction'[1].id = nextRow - 1
      ]_vars

\* the successful act calls made so far, in order
OkActs == SelectSeq(gmail_calls, LAMBDA c : c.ok /\ c.op \in ActKinds)

\* the kind each act command performs
KindOfTool(name) ==
    CASE name = "archive_email" -> "archive"
      [] name = "delete_email" -> "delete"
      [] name = "star_email" -> "star"
      [] OTHER -> "none"

\* C6: each act command adds exactly one UndoEntry (for its session, its
\* kind and the item it held as current) when the Gmail mutation succeeds
\* and none when the mutation fails or there is no current item: between
\* tool calls the number of rows ever inserted equals the number of
\* successful act calls, the k-th row inserted is that of the k-th
\* successful act, and a successful act's response names the item of the
\* newest row.
C6_OneEntryPerSuccessfulAct ==
    /\ \A r \in undo_actions :
          /\ r.id \in 1..Len(OkActs)
          /\ r.session_id = "s1"
          /\ r.action_type = OkActs[r.id].op
          /\ r.gmail_thread_id = OkActs[r.id].id
    /\ nextRow - 1 <= Len(OkActs)
    /\ AtRest =>
          /\ nextRow - 1 = Len(OkActs)
          /\ (result[1].name \in ActNames /\ result[1].success) =>
                \E r \in undo_actions :
                    /\ r.id = nextRow - 1
                    /\ r.action_type = KindOfTool(result[1].name)
                    /\ r.gmail_thread_id = result[1].threadId

\* C6 witness: after one failed and one successful act the ledger holds
\* exactly one entry
C6_Witness ==
    /\ pc[1] = "idle"
    /\ result[1].name \in ActNames /\ result[1].success
    /\ Cardinality(undo_actions) = 1
    /\ \E i \in DOMAIN gmail_calls :
          ~ gmail_calls[i].ok /\ gmail_calls[i].op \in ActKinds

\* this step appended a successful Gmail call
CallSucceeded ==
    /\ Len(gmail_calls') = Len(gmail_calls) + 1
    /\ gmail_calls'[Len(gmail_calls')].ok

C8_FailedUndoKeepsEntry ==
    [][ /\ ( /\ pc[1] = "undo_reverse" /\ pc'[1] # "undo_reverse"
             /\ ~ CallSucceeded ) =>
             /\ pc'[1] \in {"idle", "dispatch"}
             /\ result'[1].name = "undo_action"
             /\ ~ result'[1].success
             /\ result'[1].msg \in {"no_connect_undo", "action_failed"}
             /\ undoAction[1] \in undo_actions'
             /\ UNCHANGED <<sessions, undo_actions, nextRow>>
        /\ ( /\ Runs("undo_action")
             /\ result[1].name = "undo_action"
             /\ result[1].msg = "action_failed"
             /\ \E r \in undo_actions :
                   /\ r.session_id = req[1].sessionId
                   /\ r.expires_at > now
                   /\ r.gmail_thread_id = gmail_calls[Len(gmail_calls)].id
                   /\ r.reverse_action = gmail_calls[Len(gmail_calls)].op ) =>
             /\ pc'[1] = "undo_reverse"
             /\ undoAction'[1].gmail_thread_id = gmail_calls[Len(gmail_calls)].id
             /\ undoAction'[1].reverse_action = gmail_calls[Len(gmail_calls)].op
      ]_vars

\* C8 witness: an undo whose reverse call threw was followed by an undo of
\* the same entry that succeeded
C8_Witness ==
    /\ pc[1] = "idle"
    /\ result[1].name = "undo_action" /\ result[1].success
    /\ Len(gmail_calls) >= 3
    /\ LET n == Len(gmail_calls)
       IN /\ gmail_calls[n].ok /\ ~ gmail_calls[n - 1].ok
          /\ gmail_calls[n].op \in ReverseKinds
          /\ gmail_calls[n - 1].op = gmail_calls[n].op
          /\ gmail_calls[n - 1].id = gmail_calls[n].id
          /\ gmail_calls[n - 2].id = gmail_calls[n].id
          /\ QueueAt(queue["s1"], sessions["s1"].current_index)
                = gmail_calls[n].id
          /\ undo_actions = {}

\* the last Gmail call made is a successful call of the given kind on the
\* given item
LastCallOk(op, id) ==
    /\ gmail_calls # <<>>
    /\ gmail_calls[Len(gmail_calls)] = [op |-> op, id |-> id, ok |-> TRUE]

\* C9: no optimistic updates: an act inserts its ledger entry and moves the
\* cursor only once its Gmail mutation has returned successfully, and an
\* undo deletes the entry and rewinds the cursor only once the reverse
\* mutation has returned successfully.
C9_NoOptimisticUpdate ==
    [][ /\ ( /\ req[1].name \in ActNames
             /\ (undo_actions' # undo_actions \/ sessions' # sessions) ) =>
             LastCallOk(KindOfTool(req[1].name),
                        QueueAt(queue[req[1].sessionId], req[1].current_index))
        /\ ( /\ req[1].name = "undo_action"
             /\ (undo_actions' # undo_actions \/ sessions' # sessions) ) =>
             /\ undoAction[1] # NoRow
             /\ LastCallOk(undoAction[1].reverse_action,
                           undoAction[1].gmail_thread_id)
      ]_vars

\* C9 witness: the reverse call of an undo has succeeded and the entry is
\* still in the ledger, the cursor still past the item: deletion and rewind
\* come after the call
C9_Witness ==
    /\ pc[1] = "undo_delete"
    /\ undoAction[1] \in undo_actions
    /\ LastCallOk(undoAction[1].reverse_action, undoAction[1].gmail_thread_id)
    /\ QueueAt(queue["s1"], sessions["s1"].current_index)
          # undoAction[1].gmail_thread_id

\* C10: skip only advances the cursor: it makes no Gmail call and neither
\* adds nor removes a ledger entry, so an undo issued right after
\* 'act; skip', within the act's window, selects that act's entry.
C10_SkipOnlyAdvances ==
    [][ /\ Runs("skip_email") =>
             /\ UNCHANGED <<undo_actions, gmail_calls, nextRow>>
             /\ pc'[1] \in {"idle", "dispatch"}
             /\ result'[1].name = "skip_email" /\ result'[1].success
             /\ sessions'["s1"].current_index >= sessions["s1"].current_index
        /\ ( /\ Runs("undo_action")
             /\ result[1].name = "skip_email"
             /\ gmail_calls # <<>>
             /\ gmail_calls[Len(gmail_calls)].ok
             /\ gmail_calls[Len(gmail_calls)].op \in ActKinds
             /\ \E r \in undo_actions :
                   r.id = nextRow - 1 /\ r.expires_at > now ) =>
             /\ pc'[1] = "undo_reverse"
             /\ undoAction'[1].id = nextRow - 1
             /\ undoAction'[1].gmail_thread_id = gmail_calls[Len(gmail_calls)].id
      ]_vars

\* C10 witness: after 'act; skip' an undo has selected the entry of that act
\* and is about to reverse it
C10_Witness ==
    /\ pc[1] = "undo_reverse"
    /\ result[1].name = "skip_email" /\ result[1].success
    /\ undoAction[1].id = nextRow - 1
    /\ gmail_calls # <<>>
    /\ gmail_calls[Len(gmail_calls)].ok
    /\ gmail_calls[Len(gmail_calls)].id = undoAction[1].gmail_thread_id
    /\ gmail_calls[Len(gmail_calls)].op = undoAction[1].action_type

\* the stored cursor of the session the commands go to
Cursor == sessions["s1"].current_index

\* this step is the advance of a skip, or of an act whose mutation succeeded
AdvanceDone ==
    \/ Runs("skip_email")
    \/ pc[1] = "act_move" /\ pc'[1] # "act_move"

\* this step is the rewind of an undo whose reverse mutation succeeded
RewindDone == pc[1] = "undo_jump" /\ pc'[1] # "undo_jump"

\* C11: every change of the cursor is either an increase by exactly 1 made
\* by an advance (skip or successful act) or the assignment of the target
\* item's queue position made by a successful undo; nothing else changes the
\* cursor, and it decreases only through a successful undo.
C11_CursorChangesOnlyByAdvanceOrUndo ==
    [][ sessions'["s1"].current_index # Cursor =>
          \/ AdvanceDone /\ sessions'["s1"].current_index = Cursor + 1
          \/ /\ RewindDone
             /\ LastCallOk(undoAction[1].reverse_action,
                           undoAction[1].gmail_thread_id)
             /\ QueueAt(queue["s1"], sessions'["s1"].current_index)
                   = undoAction[1].gmail_thread_id
      ]_vars

\* no undo has succeeded so far
NoUndoSoFar ==
    \A i \in DOMAIN gmail_calls :
        ~ (gmail_calls[i].ok /\ gmail_calls[i].op \in ReverseKinds)

\* C12: on a fresh session with queue length n >= 1 and no undo, each
\* advancing command (skip, or act whose mutation succeeds) issued while the
\* session is Active adds exactly 1 to the cursor, and the status becomes
\* Completed on the advance that makes the cursor n and stays Active on any
\* earlier one; so n advances leave cursor = n and status Completed, with one
\* change of status, on the n-th advance.
C12_AdvancesCompleteOnce ==
    [][ ( /\ AdvanceDone
          /\ NoUndoSoFar
          /\ Len(queue["s1"]) >= 1
          /\ sessions["s1"].status = "active" ) =>
          /\ sessions'["s1"].current_index = Cursor + 1
          /\ sessions'["s1"].status =
                IF Cursor + 1 = Len(queue["s1"]) THEN "completed" ELSE "active"
      ]_vars

\* C13: Completed is terminal: no operation changes the status of a session
\* that is Completed.
C13_CompletedIsTerminal ==
    [][ \A s \in SessionIds :
           sessions[s].status = "completed" =>
              sessions'[s].status = "completed"
      ]_vars

\* this step is a stop request being answered
StopDone == issued' # issued /\ result'[1].name = "session_stop"

\* C14: stop changes the status to Paused only when the session is Active; on
\* a Paused or Completed session it leaves the status unchanged; it never
\* changes cursor, queue or ledger.
C14_StopPausesActiveOnly ==
    [][ StopDone =>
          /\ sessions'["s1"].status =
                IF sessions["s1"].status = "active" THEN "paused"
                ELSE sessions["s1"].status
          /\ sessions'["s1"].current_index = Cursor
          /\ UNCHANGED <<queue, undo_actions>>
      ]_vars

\* C15: a command issued on a Paused session first makes it Active: when an
\* act, a skip or an undo has returned success (it changed the cursor or the
\* ledger), the session is not Paused.
C15_CommandResumesPaused ==
    [][ ( /\ Returned
          /\ result'[1].name \in ActNames \cup {"skip_email", "undo_action"}
          /\ result'[1].success ) =>
          sessions'[req[1].sessionId].status # "paused"
      ]_vars

C17_DataMatchesMessage ==
    [][ Returned =>
          LET r == result'[1]
              after == sessions'["s1"].current_index
          IN /\ (r.name \in ActNames \cup {"skip_email"} /\ r.success) =>
                   /\ after = Cursor + 1
                   /\ r.next = QueueAt(queue["s1"], after)
             /\ (r.name \in ActNames /\ r.success) =>
                   /\ r.msg = "acted"
                   /\ LastCallOk(KindOfTool(r.name), r.threadId)
                   /\ r.threadId = QueueAt(queue["s1"], Cursor)
             /\ (r.name = "undo_action" /\ r.success) =>
                   /\ LastCallOk(InverseOf(r.msg), r.threadId)
                   /\ QueueAt(queue["s1"], after) = r.threadId
             /\ (r.name \in ActNames \cup {"skip_email", "undo_action"}
                   /\ ~ r.success) =>
                   UNCHANGED <<sessions, undo_actions>>
      ]_vars

\* C18: queryRemaining is a pure read that returns remaining = len(queue) -
\* cursor, total = len(queue), position = cursor + 1, with 0 <= remaining <=
\* total, and whose message is the "processed all" text iff remaining = 0,
\* the singular text iff remaining = 1 and the plural text otherwise.
C18_QueryRemaining ==
    [][ Runs("get_remaining_count") =>
          LET r == result'[1]
          IN /\ UNCHANGED <<sessions, undo_actions>>
             /\ r.name = "get_remaining_count"
             /\ r.remaining = Len(queue["s1"]) - Cursor
             /\ r.total = Len(queue["s1"])
             /\ r.current = Cursor + 1
             /\ 0 <= r.remaining /\ r.remaining <= r.total
             /\ (r.msg = "processed_all") <=> (r.remaining = 0)
             /\ (r.msg = "one_left") <=> (r.remaining = 1)
             /\ (r.msg = "n_remaining") <=> (r.remaining > 1)
      ]_vars

\* C19: endSession sets the status to Completed whatever cursor and status
\* were, leaves cursor and ledger unchanged, reports processed = cursor and
\* remaining = len(queue) - cursor, and uses the "remaining" phrasing iff
\* remaining > 0 and the "processed all" phrasing iff remaining = 0.
C19_EndSession ==
    [][ Runs("end_session") =>
          LET r == result'[1]
          IN /\ sessions'["s1"].status = "completed"
             /\ sessions'["s1"].current_index = Cursor
             /\ UNCHANGED undo_actions
             /\ r.name = "end_session"
             /\ r.processed = Cursor
             /\ r.remaining = Len(queue["s1"]) - Cursor
             /\ r.processed + r.remaining = Len(queue["s1"])
             /\ (r.msg = "session_ended") <=> (r.remaining > 0)
             /\ (r.msg = "session_complete") <=> (r.remaining = 0)
      ]_vars

\* C20: getCurrent is an idempotent read: a getCurrent that directly follows
\* a getCurrent returns the same data.email, and changes neither cursor,
\* status nor ledger, whether the content fetch succeeds or fails.
C20_GetCurrentIdempotent ==
    [][ (Runs("get_current_email") /\ result[1].name = "get_current_email") =>
          /\ result'[1].email = result[1].email
          /\ UNCHANGED <<sessions, undo_actions>>
      ]_vars

\* this step answers a request that never entered the tool-call loop
RejectedDone == issued' # issued /\ pc'[1] = "idle"

\* this step runs a tool call whose name is outside the closed set
UnknownDone == pc[1] = "dispatch" /\ req[1].name \notin ToolNames /\ now' = now

\* C21: a request with a missing or unknown session id, and a tool call with
\* a name outside the closed command set, get a failure response and change
\* no session's cursor or status and no ledger entry, and make no Gmail call.
C21_InvalidRequestRejected ==
    [][ /\ RejectedDone =>
             /\ ~ result'[1].success
             /\ result'[1].msg \in {"session_missing", "session_not_found"}
             /\ UNCHANGED <<sessions, queue, undo_actions, nextRow, gmail_calls>>
        /\ UnknownDone =>
             /\ pc'[1] \in {"idle", "dispatch"}
             /\ result'[1].name = req[1].name
             /\ ~ result'[1].success
             /\ result'[1].msg = "unknown_function"
             /\ UNCHANGED <<sessions, queue, undo_actions, nextRow, gmail_calls>>
      ]_vars

\* C21 witness: an unknown tool name was answered with the failure while the
\* session has a ledger entry and a cursor past the first item
C21_Witness ==
    /\ pc[1] = "idle"
    /\ result[1].name \in UnknownNames
    /\ result[1].msg = "unknown_function"
    /\ undo_actions # {}
    /\ Cursor = 1

\* this step answers GET /api/session/[sessionId]
GetDone == issued' # issued /\ result'[1].name = "session_get"

\* C22: the status read changes nothing and returns the stored status, the
\* stored cursor and total = len(queue); its current item is queue[cursor]
\* when cursor < len(queue) and none otherwise; processed + remaining = total
\* and the current item is none exactly when remaining <= 0.
C22_GetStatusPureRead ==
    [][ GetDone =>
          LET r == result'[1]
              q == queue["s1"]
          IN /\ UNCHANGED <<sessions, queue, undo_actions, nextRow, gmail_calls>>
             /\ r.msg = sessions["s1"].status
             /\ r.current = Cursor
             /\ r.total = Len(q)
             /\ r.threadId = (IF Cursor < Len(q) THEN q[Cursor + 1] ELSE NoThread)
             /\ r.processed + r.remaining = r.total
             /\ (r.threadId = NoThread) <=> (r.remaining <= 0)
      ]_vars

\* C22 witness: the status of a two-item session was read with the cursor on
\* the second item, after one item had been processed
C22_Witness ==
    /\ result[1].name = "session_get"
    /\ result[1].current = 1
    /\ result[1].total = 2
    /\ result[1].threadId = queue["s1"][2]
    /\ result[1].remaining = 1

\* indexes of the results that matched the canonical thread id
MatchesOf(id) ==
    {i \in 1..Len(recon.results) :
       /\ recon.results[i].gmailThread # 0
       /\ recon.gmailThreads[recon.results[i].gmailThread].threadId = id}

\* C24: whatever the observation list and the canonical list (repeated ids and
\* repeated external ids included), no canonical id is the match of more than
\* one result of mapThreads.
C24_NoCanonicalIdMatchedTwice ==
    \A g \in 1..Len(recon.gmailThreads) :
        Cardinality(MatchesOf(recon.gmailThreads[g].threadId)) <= 1

\* C24 witness: the canonical list holds the id t1 twice; the first
\* observation took one of the two threads and the second went unmatched
\* although the other t1 thread scores above one half for it
C24_Witness ==
    /\ recon.step = "mapped"
    /\ Len(recon.results) = 2
    /\ MatchesOf("t1") = {1}
    /\ recon.results[2].gmailThread = 0
    /\ \E k \in 1..Len(recon.gmailThreads) :
         /\ recon.gmailThreads[k].threadId = "t1"
         /\ k # recon.results[1].gmailThread
         /\ AboveThreshold(Score(recon.superhumanThreads[2], recon.gmailThreads[k]))

\* mapThreads is running or has just returned: results[i] belongs to the
\* i-th observation
InMapThreads == recon.step \in {"mapping", "mapped"}

\* the canonical ids matched by the results before the i-th
ClaimedBefore(i) ==
    {recon.gmailThreads[recon.results[j].gmailThread].threadId :
        j \in {j \in 1..(i - 1) : recon.results[j].gmailThread # 0}}

\* indexes of the canonical threads the i-th observation could still take
Candidates(i) ==
    {k \in 1..Len(recon.gmailThreads) :
        recon.gmailThreads[k].threadId \notin ClaimedBefore(i)}

\* the score of canonical thread k for the i-th observation
ScoreOf(i, k) == Score(recon.superhumanThreads[i], recon.gmailThreads[k])

\* the i-th observation carries the id of a canonical thread not yet claimed
HasExact(i) ==
    /\ recon.superhumanThreads[i].superhumanThreadId # ""
    /\ \E k \in Candidates(i) :
         recon.gmailThreads[k].threadId = recon.superhumanThreads[i].superhumanThreadId

\* a <= b for two fractions
Leq(a, b) == a[1] * b[2] <= b[1] * a[2]

\* C25: an observation whose external id is non-empty and is the id of a
\* canonical thread no earlier observation claimed is matched to a thread
\* with that id, with method exact and confidence 1, whatever the similarity
\* scores of the other canonical threads.
C25_ExactMatchWins ==
    InMapThreads =>
      \A i \in 1..Len(recon.results) :
         HasExact(i) =>
            LET r == recon.results[i]
            IN /\ r.matchMethod = "exact"
               /\ r.matchConfidence[1] = r.matchConfidence[2]
               /\ r.gmailThread \in Candidates(i)
               /\ recon.gmailThreads[r.gmailThread].threadId =
                    recon.superhumanThreads[i].superhumanThreadId

\* C25 witness: an observation was matched by its id to a thread that scores
\* 0 on similarity while an unclaimed thread of the list scores 1
C25_Witness ==
    /\ InMapThreads
    /\ \E i \in 1..Len(recon.results) :
         /\ HasExact(i)
         /\ recon.results[i].matchMethod = "exact"
         /\ ScoreOf(i, recon.results[i].gmailThread)[1] = 0
         /\ \E k \in Candidates(i) : ScoreOf(i, k)[1] = ScoreOf(i, k)[2]

\* C26: a fuzzy match has a score strictly above one half, and an observation
\* without an exact candidate whose unclaimed candidates all score one half
\* or less is returned unmatched, with method none and confidence 0.
C26_FuzzyThreshold ==
    InMapThreads =>
      \A i \in 1..Len(recon.results) :
         LET r == recon.results[i]
         IN /\ r.matchMethod = "fuzzy" =>
                 /\ r.gmailThread \in Candidates(i)
                 /\ r.matchConfidence = ScoreOf(i, r.gmailThread)
                 /\ 2 * r.matchConfidence[1] > r.matchConfidence[2]
            /\ (/\ ~ HasExact(i)
                /\ \A k \in Candidates(i) : Leq(ScoreOf(i, k), <<1, 2>>)) =>
                 /\ r.gmailThread = 0
                 /\ r.matchMethod = "none"
                 /\ r.matchConfidence[1] = 0

\* the i-th observation went unmatched and its best candidate scored num/den
UnmatchedAt(i, num, den) ==
    /\ i \in 1..Len(recon.results)
    /\ recon.results[i].matchMethod = "none"
    /\ \E k \in Candidates(i) :
         /\ ScoreOf(i, k)[1] * den = num * ScoreOf(i, k)[2]
         /\ \A j \in Candidates(i) : Leq(ScoreOf(i, j), ScoreOf(i, k))

\* C26 witness: two observations are unmatched, the best candidate of one
\* scoring exactly 0.5 (subject 1/2, sender 1/2) and of the other 0.28
\* (subject 2/5, sender 0)
C26_Witness ==
    /\ recon.step = "mapped"
    /\ UnmatchedAt(1, 1, 2)
    /\ UnmatchedAt(2, 7, 25)

\* this step pushes the result of one more observation
PushDone == recon.step = "mapping" /\ recon'.results # recon.results

\* C27: observations are processed in input order; without an exact match an
\* observation takes the unclaimed canonical thread with the highest score
\* (if above one half), the first of them in the canonical list when several
\* tie; results already pushed are not changed by later observations.
C27_GreedyFirstBest ==
    [][ PushDone =>
          LET i == Len(recon.results) + 1
              r == recon'.results[i]
              sh == recon.superhumanThreads[i]
              free == {k \in 1..Len(recon.gmailThreads) :
                         recon.gmailThreads[k].threadId \notin
                           {recon.gmailThreads[recon.results[j].gmailThread].threadId :
                              j \in {j \in 1..(i - 1) :
                                       recon.results[j].gmailThread # 0}}}
              sc(k) == Score(sh, recon.gmailThreads[k])
          IN /\ Len(recon'.results) = i
             /\ SubSeq(recon'.results, 1, i - 1) = recon.results
             /\ r.superhumanThread = sh
             /\ r.matchMethod = "fuzzy" =>
                  /\ r.gmailThread \in free
                  /\ \A k \in free : Leq(sc(k), sc(r.gmailThread))
                  /\ \A k \in free : k < r.gmailThread =>
                        ~ Leq(sc(r.gmailThread), sc(k))
             /\ r.matchMethod = "none" =>
                  \A k \in free : Leq(sc(k), <<1, 2>>)
      ]_vars

\* C27 witness: the first observation tied between two threads and took the
\* first of them; that thread is the best candidate of the second
\* observation, which had to take a thread with a lower score
C27_Witness ==
    /\ recon.step = "mapped"
    /\ Len(recon.results) = 2
    /\ recon.results[1].matchMethod = "fuzzy"
    /\ \E k \in Candidates(1) :
         /\ k > recon.results[1].gmailThread
         /\ recon.gmailThreads[k].threadId #
              recon.gmailThreads[recon.results[1].gmailThread].threadId
         /\ ScoreOf(1, k) = ScoreOf(1, recon.results[1].gmailThread)
    /\ recon.results[2].matchMethod = "fuzzy"
    /\ ~ Leq(ScoreOf(2, recon.results[1].gmailThread),
             recon.results[2].matchConfidence)

\* indexes of the results that have a match
MatchedResults == {i \in 1..Len(recon.results) : recon.results[i].gmailThread # 0}

\* C28: mapThreads returns one result per observation, in the order of the
\* observations; the ordered id list holds exactly the matched canonical ids,
\* by ascending observation position, unmatched observations dropped, so its
\* length is the number of results whose method is not none.
C28_ResultsAndOrderedIds ==
    /\ recon.step = "mapped" =>
         /\ Len(recon.results) = Len(recon.superhumanThreads)
         /\ \A i \in 1..Len(recon.results) :
              /\ recon.results[i].superhumanThread = recon.superhumanThreads[i]
              /\ recon.results[i].position = recon.superhumanThreads[i].position
    /\ recon.step = "ordered" =>
         /\ Len(recon.orderedIds) =
              Cardinality({i \in 1..Len(recon.results) :
                             recon.results[i].matchMethod # "none"})
         /\ \E f \in [1..Len(recon.orderedIds) -> MatchedResults] :
              /\ \A i, j \in DOMAIN f : i # j => f[i] # f[j]
              /\ \A i \in DOMAIN f :
                   recon.orderedIds[i] =
                     recon.gmailThreads[recon.results[f[i]].gmailThread].threadId
              /\ \A i, j \in DOMAIN f :
                   i < j => recon.results[f[i]].position <
                            recon.results[f[j]].position

\* C28 witness: observations arrived with descending positions, one of them
\* unmatched, and the ordered list holds the two matched ids
C28_Witness ==
    /\ recon.step = "ordered"
    /\ Len(recon.superhumanThreads) = 2
    /\ recon.superhumanThreads[1].position > recon.superhumanThreads[2].position
    /\ Len(recon.orderedIds) = 2

\* the start route answers with the new session
StartDone == recon.step = "insert" /\ recon'.step = "started"

\* the start route answers with an error
StartFailed == result'[1] # result[1] /\ result'[1].name = "session_start"
               /\ ~ result'[1].success

\* the matched canonical ids in the order of the observations
ReconciledIds ==
    LET kept == SelectSeq(recon.results, LAMBDA t : t.matchMethod # "none")
    IN [i \in 1..Len(kept) |-> recon.gmailThreads[kept[i].gmailThread].threadId]

\* C23: a started session has cursor 0 and status active, its queue is the
\* reconciled ordering, or the canonical order when the ordering source is
\* not used or not available; the response carries queueLength = len(queue)
\* and firstItem = queue[0], none for an empty queue; when the Gmail fetch or
\* the insert fails, no session exists and none is returned.
C23_StartSession ==
    [][ /\ StartDone =>
             LET q == queue'["s1"]
             IN /\ sessions'["s1"] = CreatedSession
                /\ q = (IF recon.path = "mapped" THEN ReconciledIds
                        ELSE [i \in 1..Len(recon.gmailThreads) |->
                                recon.gmailThreads[i].threadId])
                /\ recon.path \in FallbackPaths \cup {"mapped"}
                /\ result'[1].success
                /\ result'[1].total = Len(q)
                /\ result'[1].threadId = (IF Len(q) > 0 THEN q[1] ELSE NoThread)
                /\ result'[1].email.threadId = result'[1].threadId
        /\ StartFailed =>
             /\ UNCHANGED <<sessions, queue>>
             /\ sessions["s1"] = NoSession
             /\ result'[1].threadId = NoThread
             /\ result'[1].total = 0
        /\ (sessions'["s1"] # sessions["s1"] /\ sessions["s1"] = NoSession) => StartDone
      ]_vars

\* C23 witness: a session was started on the reconciled path with two items,
\* thread t2 first, and nothing has been sent to it yet
C23_Witness ==
    /\ recon.step = "started"
    /\ result[1].name = "session_start"
    /\ result[1].msg = "mapped"
    /\ result[1].total = 2
    /\ result[1].threadId = "t2"
    /\ queue["s1"] = <<"t2", "t1">>
    /\ sessions["s1"] = CreatedSession

\* C29: the queue stored by the start route has positions 0, 1, 2, ... in
\* index order and pairwise distinct thread ids, on the reconciled path and on
\* every fallback path; once the session exists no step changes its queue.
C29_QueueDenseUniqueImmutable ==
    [][ /\ StartDone =>
             LET qs == recon.queueSnapshot
                 q == queue'["s1"]
             IN /\ Len(q) = Len(qs)
                /\ \A i \in 1..Len(qs) :
                     /\ qs[i].position = i - 1
                     /\ q[i] = qs[i].threadId
                /\ \A i, j \in 1..Len(q) : i # j => q[i] # q[j]
        /\ sessions["s1"] # NoSession => queue' = queue
      ]_vars

\* C29 witness: a session started with a two-item queue has completed an
\* archive and an undo, and the queue is still the one that was stored
C29_Witness ==
    /\ recon.step = "started"
    /\ pc[1] = "idle"
    /\ result[1].name = "undo_action"
    /\ result[1].success
    /\ Len(queue["s1"]) = 2
    /\ queue["s1"][1] # queue["s1"][2]
    /\ Cursor = 0

\* the Gmail call that reverses op
InverseOp(op) ==
    CASE op = "delete" -> "undelete"
      [] op = "star" -> "unstar"
      [] op = "unstar" -> "star"
      [] OTHER -> "none"

\* the last two Gmail calls are a successful call of an action route for a
\* thread and, right after it, a successful call of the undo route for it
ActThenUndo ==
    /\ Len(gmail_calls) >= 2
    /\ LET act == gmail_calls[Len(gmail_calls) - 1]
           rev == gmail_calls[Len(gmail_calls)]
       IN /\ act.by = "action" /\ act.ok
          /\ rev.by = "undo" /\ rev.ok
          /\ rev.id = act.id
          /\ result[1].name = "actions_undo" /\ result[1].success
          /\ result[1].threadId = act.id

\* C30: a successful delete or star request for a thread followed, within the
\* window and with nothing else done to the thread in between, by an undo
\* request for it applies the inverse of what was done, leaves the thread with
\* the trashed and starred state it had before, and removes the undo record.
C30_StandaloneUndoRestores ==
    ActThenUndo =>
      LET act == gmail_calls[Len(gmail_calls) - 1]
          rev == gmail_calls[Len(gmail_calls)]
      IN /\ rev.op = InverseOp(act.op)
         /\ mailbox[act.id].trash = act.before.trash
         /\ mailbox[act.id].starred = act.before.starred
         /\ \A r \in undo_actions :
              r.gmail_thread_id = act.id => r.created_at < nextRow - 1

\* this step is the select of handleUndo
SelectDone == pc[1] = "dispatch" /\ req[1].name = "undo_action" /\ now' = now

\* rows the undo of session sid may take
OwnLive(sid) ==
    {r \in undo_actions : r.session_id = sid /\ r.expires_at > now}

\* C31: undo selects, among the ledger entries of the requesting session
\* only, the one with the latest createdAt among those whose expiresAt is
\* strictly greater than now; an entry that expires now, an entry of another
\* session and an entry without a session are never selected.
C31_UndoSelectsOwnNewestLive ==
    [][ SelectDone =>
          LET sid == req[1].sessionId
          IN IF OwnLive(sid) = {}
             THEN /\ pc'[1] = "idle"
                  /\ result'[1].msg = "nothing_to_undo"
                  /\ UNCHANGED undoAction
             ELSE /\ pc'[1] = "undo_reverse"
                  /\ undoAction'[1] \in OwnLive(sid)
                  /\ \A r \in OwnLive(sid) :
                       r.created_at <= undoAction'[1].created_at
      ]_vars

\* C31 witness: the undo of session s1 found nothing although the table
\* holds an entry of s1 that expires at this instant, a live entry of s2 and
\* a live entry without a session
C31_Witness ==
    /\ pc[1] = "idle"
    /\ result[1].name = "undo_action"
    /\ result[1].msg = "nothing_to_undo"
    /\ \E r \in undo_actions : r.session_id = "s1" /\ r.expires_at = now
    /\ \E r \in undo_actions : r.session_id = "s2" /\ r.expires_at > now
    /\ \E r \in undo_actions : r.session_id = "null" /\ r.expires_at > now

\* C32: the reverse operation a successful act records is the inverse of its
\* kind, on the thread the act was done to; an undo that succeeds calls the
\* Gmail mutator exactly once, with the recorded reverse operation on the
\* recorded thread, and reports the kind it reversed.
C32_ReverseIsInverse ==
    [][ /\ (pc[1] = "act_store" /\ pc'[1] = "act_move") =>
             \E r \in undo_actions' \ undo_actions :
                /\ undo_actions' = undo_actions \cup {r}
                /\ r.action_type = KindOfTool(req[1].name)
                /\ r.reverse_action = InverseOf(r.action_type)
                /\ LastCallOk(r.action_type, r.gmail_thread_id)
        /\ (pc[1] = "undo_reverse" /\ pc'[1] = "undo_delete") =>
             gmail_calls' = Append(gmail_calls,
                                   [op |-> undoAction[1].reverse_action,
                                    id |-> undoAction[1].gmail_thread_id,
                                    ok |-> TRUE])
        /\ (pc[1] \in {"undo_delete", "undo_jump"} \/ Runs("undo_action")) =>
             UNCHANGED gmail_calls
        /\ (pc[1] = "undo_jump" /\ pc'[1] # "undo_jump") =>
             /\ result'[1].success
             /\ result'[1].msg = undoAction[1].action_type
             /\ undoAction[1].reverse_action = InverseOf(undoAction[1].action_type)
             /\ LastCallOk(undoAction[1].reverse_action,
                           undoAction[1].gmail_thread_id)
      ]_vars

\* C32 witness: a star was undone: the last Gmail call is the unstar of the
\* starred thread and the undo reports the kind star
C32_Witness ==
    /\ pc[1] = "idle"
    /\ result[1].name = "undo_action" /\ result[1].success
    /\ result[1].msg = "star"
    /\ Len(gmail_calls) = 2
    /\ gmail_calls[1] = [op |-> "star", id |-> result[1].threadId, ok |-> TRUE]
    /\ gmail_calls[2] = [op |-> "unstar", id |-> result[1].threadId, ok |-> TRUE]

\* the session was completed with items left, and request 1 is an act or a
\* skip received after that
ContinuesAfterEnd ==
    /\ sessions["s1"].status = "completed"
    /\ Cursor < Len(queue["s1"])
    /\ pc[1] # "idle"
    /\ req[1].status = "completed"
    /\ req[1].name \in ActNames \cup {"skip_email"}

\* C33: after end_session completed a session that has items left, an act or
\* a skip on it makes no Gmail call, adds no ledger entry and leaves the
\* cursor alone.
C33_NoTriageAfterEnd ==
    [][ ContinuesAfterEnd =>
          /\ UNCHANGED <<gmail_calls, undo_actions>>
          /\ sessions'["s1"].current_index = Cursor
      ]_vars

\* the words of a string once lowercased and stripped of punctuation
Tokens(str) == {NormWord(str[i]) : i \in 1..Len(str)} \ {""}

\* what the similarity of a and b has to be, as a fraction
ExpectedSimilarity(a, b) ==
    IF Tokens(a) = {} /\ Tokens(b) = {} THEN <<1, 1>>
    ELSE IF Tokens(a) = {} \/ Tokens(b) = {} THEN <<0, 1>>
    ELSE <<Cardinality(Tokens(a) \cap Tokens(b)),
           IF Cardinality(Tokens(a)) <= Cardinality(Tokens(b))
           THEN Cardinality(Tokens(a)) ELSE Cardinality(Tokens(b))>>

\* similarity(a, b) is the expected fraction and lies between 0 and 1
SimilarityRight(a, b) ==
    LET sim == similarity(a, b)
        exp == ExpectedSimilarity(a, b)
    IN /\ sim[2] > 0 /\ sim[1] >= 0 /\ sim[1] <= sim[2]
       /\ sim[1] * exp[2] = exp[1] * sim[2]

\* the pairs of strings mapThreads compares in this request
ComparedPairs ==
    UNION {{<<recon.superhumanThreads[i].subject, recon.gmailThreads[k].subject>>,
            <<extractEmail(recon.superhumanThreads[i].sender),
              recon.gmailThreads[k].senderEmail>>} :
           i \in 1..Len(recon.superhumanThreads),
           k \in 1..Len(recon.gmailThreads)}

\* C34: the similarity of two strings is |A \cap B| / min(|A|, |B|) over the
\* token sets of the normalized strings; it is 1 when both normalized strings
\* are empty, 0 when exactly one is, and always lies in [0, 1].
C34_SimilarityIsOverlap ==
    \A p \in ComparedPairs : SimilarityRight(p[1], p[2])

\* C34 witness: a request was mapped in which two empty strings, an empty and
\* a non-empty string, and two strings sharing 2 of 5 words were compared
C34_Witness ==
    /\ recon.step = "mapped"
    /\ \E p \in ComparedPairs : Tokens(p[1]) = {} /\ Tokens(p[2]) = {}
    /\ \E p \in ComparedPairs : Tokens(p[1]) = {} /\ Tokens(p[2]) # {}
    /\ \E p \in ComparedPairs :
         /\ Cardinality(Tokens(p[1]) \cap Tokens(p[2])) = 2
         /\ Cardinality(Tokens(p[1])) = 5
         /\ Cardinality(Tokens(p[2])) = 5

\* every unexpired ledger entry of a session is for a thread of its queue at
\* a position below the cursor
EntriesBehindCursor ==
    \A s \in SessionIds :
       \A r \in undo_actions :
          (r.session_id = s /\ r.expires_at > now) =>
             /\ FindIndex(queue[s], r.gmail_thread_id) >= 0
             /\ FindIndex(queue[s], r.gmail_thread_id) < sessions[s].current_index

\* C35: between tool calls every unexpired ledger entry of a session targets
\* a thread of that session's queue at a position strictly below the cursor;
\* so the undo finds its target in the queue and a successful undo moves the
\* cursor strictly backward.
C35_UndoMovesBackward ==
    [][ /\ (\A w \in Procs : pc'[w] \in {"idle", "dispatch"}) => EntriesBehindCursor'
        /\ \A w \in Procs :
             (pc[w] = "undo_jump" /\ pc'[w] # "undo_jump") =>
                LET s == req[w].sessionId
                IN /\ FindIndex(queue[s], undoAction[w].gmail_thread_id) >= 0
                   /\ sessions'[s].current_index < sessions[s].current_index
      ]_vars

\* C36: a tool call of a list has the effect it would have had as the only
\* tool call of its request: a skip moves the stored cursor one forward, an
\* act is done to the item at the stored cursor and then moves the stored
\* cursor one forward (two skips advance by 2, two archives archive two
\* different items).
C36_BatchEqualsSingles ==
    [][ /\ Runs("skip_email") =>
             sessions'["s1"].current_index = Cursor + 1
        /\ (pc[1] = "dispatch" /\ req[1].name \in ActNames
            /\ gmail_calls' # gmail_calls) =>
             gmail_calls'[Len(gmail_calls')].id = QueueAt(queue["s1"], Cursor)
        /\ (pc[1] = "act_move" /\ pc'[1] # "act_move") =>
             sessions'["s1"].current_index = Cursor + 1
      ]_vars

\* C37: for a session on which end_session was never issued, between tool
\* calls the status is completed exactly when the cursor is at or past the
\* end of the queue.
C37_CompletedIffNoCurrent ==
    AtRest =>
      ((sessions["s1"].status = "completed") <=> (Cursor >= Len(queue["s1"])))

\* C38: deriving the ordered id list leaves the list of results as it was:
\* the mappedThreads of the /map-threads response are still in the order of
\* the observations, whatever their position fields.
C38_OrderLeavesResults ==
    recon.step = "ordered" =>
      \A i \in 1..Len(recon.results) :
        recon.results[i].superhumanThread = recon.superhumanThreads[i]

\* C39: a ledger entry a session's act recorded leaves the ledger only in
\* the undo of that session, the handler that then rewinds that session's
\* cursor; the thread-keyed undo route never reverses or deletes it.
C39_OnlyOwnUndoConsumes ==
    [][ \A r \in undo_actions \ undo_actions' :
          r.session_id # "null" =>
            /\ pc[1] = "undo_delete"
            /\ pc'[1] = "undo_jump"
            /\ undoAction[1].id = r.id
            /\ req[1].sessionId = r.session_id
      ]_vars

\* the saved session of account a is past its time to live
PastTTL(a) ==
    /\ cache.sessions[a] # NoSaved
    /\ Expired(cache.sessions[a], cache.clock)

\* this step answers a request of kind op for account a
Answers(op, a) ==
    /\ cache'.answer.op = op
    /\ cache'.answer.accountEmail = a
    /\ cache'.clock = cache.clock
    /\ cache'.nextSweep = cache.nextSweep

\* C40: a saved session whose last activity is more than the time to live
\* ago is never returned by a lookup, and after any step other than a new
\* save for its account a lookup still would not return it.
C40_ExpiredForGood ==
    [][ \A a \in Accounts :
          PastTTL(a) =>
            /\ (Answers("restore", a) \/ Answers("status", a)) =>
                 ~ cache'.answer.found /\ ~ cache'.answer.isActive
            /\ \/ Answers("save", a)
               \/ getSession(cache'.sessions, a, cache'.clock) = NoSaved
      ]_vars
====
